---- MODULE Spec2Model ----
(***************************************************************************)
(* coreason-episteme: the hypothesis refinement engine                     *)
(* (EpistemeEngineAsync.run) together with the candidate selection of      *)
(* BridgeBuilderImpl.generate_hypothesis and the review strategies.        *)
(*                                                                         *)
(* Scores (druggability, causal plausibility) are floats in [0,1] in the   *)
(* code; they are modelled in tenths (0.5 is 5).  Optional values are      *)
(* sequences of length at most one: None is <<>> and a value x is <<x>>.   *)
(* One action is one stretch of run between two awaits: it starts when the *)
(* awaited collaborator call returns or raises and ends at the next await. *)
(***************************************************************************)
EXTENDS Integers, Sequences, FiniteSets, TLC

\* ------------------------------------------------------------------ bounds
\* Largest number of gaps the scanner returns.
MaxGaps == 2
\* Largest max_retries an engine is constructed with (the smallest is 0:
\* server.py passes the request's integer unchecked, and run treats a
\* negative one like 0).  3 is the default, config.py MAX_RETRIES.
MaxRetries == 3

\* ------------------------------------------------------- program constants
\* engine.py: `if hypothesis.causal_validation_score < 0.5`
CausalFloor == 5
\* config.py: DRUGGABILITY_THRESHOLD = 0.5
DRUGGABILITY_THRESHOLD == 5

\* ------------------------------------------------------------ input domains
Symbols == {"X", "Y"}
\* causal plausibility scores returned by the simulation: below the floor
\* and at it
CausalScores == {4, 5}
\* druggability scores returned by Prism: at the threshold and two above it
DrugScores == {5, 6, 7}
\* str(e) of the exception a collaborator raises
Messages == {"unavailable"}
\* source_nodes of a gap: absent/empty, one node, two nodes
SourceNodeLists == {<<>>, <<"A">>, <<"A", "B">>}

None == <<>>
Some(x) == <<x>>

RECURSIVE SeqsUpTo(_, _)
\* all sequences over S of length at most n
SeqsUpTo(S, n) ==
  IF n = 0 THEN {<<>>}
  ELSE LET shorter == SeqsUpTo(S, n - 1)
       IN  shorter \cup {Append(s, x) : s \in {t \in shorter : Len(t) = n - 1}, x \in S}

Range(s) == {s[i] : i \in 1..Len(s)}
NoRepeat(s) == \A i, j \in 1..Len(s) : s[i] = s[j] => i = j

\* ------------------------------------------------------------- models.py
PENDING == [kind |-> "PENDING", detail |-> ""]
ACCEPTED == [kind |-> "ACCEPTED", detail |-> ""]
\* mutant: the no-bridge outcome recorded under the other discard reason
DiscardedNoBridgeAsLowScore == [kind |-> "DISCARDED", detail |-> "Low Causal Score"]

DiscardedNoBridge == [kind |-> "DISCARDED", detail |-> "No Bridge"]
DiscardedLowCausalScore == [kind |-> "DISCARDED", detail |-> "Low Causal Score"]
\* mutant: the status does not carry the message
ErrorStatusWithoutMessage(msg) == [kind |-> "ERROR", detail |-> ""]

\* f"ERROR: {str(e)}"
ErrorStatus(msg) == [kind |-> "ERROR", detail |-> msg]

Ensembl(symbol) == <<"ENSG", symbol>>

GeneticTarget(symbol, score) ==
  [symbol |-> symbol, ensembl_id |-> Ensembl(symbol), druggability_score |-> score]

Critique(source, content, severity) ==
  [source |-> source, content |-> content, severity |-> severity]

BridgeResult(hypothesis, count, considered) ==
  [hypothesis |-> hypothesis, bridges_found_count |-> count,
   considered_candidates |-> considered]

\* HypothesisTrace(gap=gap, gap_id=gap.id, status="PENDING") with the
\* defaults of the other fields.  The fields run only copies into the trace
\* and never reads (bridges_found_count, considered_candidates, bridge_id,
\* causal_validation_score, key_counterfactual, critiques) are left out.
HypothesisTrace(gap) ==
  [gap_id |-> gap.id,
   hypothesis_id |-> None,
   excluded_targets_history |-> <<>>,
   refinement_retries |-> 0,
   result |-> None,
   status |-> PENDING]

\* ------------------------------------------------- review_strategies.py
\* A string is a sequence of pieces, so that an f-string is a concatenation:
\* the finding "f" is <<"f">>.
\* mutant: the items come out in reverse order
_format_critiques_reversed(items, source, severity) ==
  [i \in 1..Len(items) |-> Critique(source, items[Len(items) + 1 - i], severity)]

_format_critiques(items, source, severity) ==
  [i \in 1..Len(items) |-> Critique(source, items[i], severity)]

\* each strategy: the findings of its client call, formatted; [] if none
ToxicologyStrategy(tox_risks) ==
  IF tox_risks # <<>> THEN _format_critiques(tox_risks, "Toxicologist", "FATAL")
  ELSE <<>>

ClinicalRedundancyStrategy(redundancies) ==
  IF redundancies # <<>> THEN _format_critiques(redundancies, "Clinician", "MEDIUM")
  ELSE <<>>

PatentStrategy(patents) ==
  IF patents # <<>> THEN _format_critiques(patents, "IP Strategist", "HIGH")
  ELSE <<>>

\* mutant: disconfirming evidence is a HIGH critique, not a FATAL one
ScientificSkepticStrategyHigh(disconfirming_evidence) ==
  IF disconfirming_evidence # <<>>
  THEN _format_critiques(
         [i \in 1..Len(disconfirming_evidence) |->
            <<"Disconfirming evidence found: ">> \o disconfirming_evidence[i]],
         "Scientific Skeptic", "HIGH")
  ELSE <<>>

ScientificSkepticStrategy(disconfirming_evidence) ==
  IF disconfirming_evidence # <<>>
  THEN _format_critiques(
         [i \in 1..Len(disconfirming_evidence) |->
            <<"Disconfirming evidence found: ">> \o disconfirming_evidence[i]],
         "Scientific Skeptic", "FATAL")
  ELSE <<>>


\* ------------------------------------------- adversarial_reviewer.py
\* review: the four checks in order, their critiques concatenated and
\* appended to the hypothesis's critiques
\* mutant: the hypothesis's critiques are replaced by the new ones
review_replacing(hypothesis, tox_risks, redundancies, patents, disconfirming_evidence) ==
  LET critiques == ToxicologyStrategy(tox_risks)
                   \o ClinicalRedundancyStrategy(redundancies)
                   \o PatentStrategy(patents)
                   \o ScientificSkepticStrategy(disconfirming_evidence)
  IN  [hypothesis EXCEPT !.critiques = critiques]

review(hypothesis, tox_risks, redundancies, patents, disconfirming_evidence) ==
  LET critiques == ToxicologyStrategy(tox_risks)
                   \o ClinicalRedundancyStrategy(redundancies)
                   \o PatentStrategy(patents)
                   \o ScientificSkepticStrategy(disconfirming_evidence)
  IN  [hypothesis EXCEPT !.critiques = @ \o critiques]

\* ---------------------------------------------------- causal_validator.py
validate(hypothesis, score) ==
  [hypothesis EXCEPT !.causal_validation_score = score]

\* -------------------------------------------------- protocol_designer.py
design_experiment(hypothesis) ==
  [hypothesis EXCEPT !.killer_experiment_pico = "designed"]

\* ----------------------------------------------------- bridge_builder.py
\* What the four clients answer during one generate_hypothesis call:
\*   bridges  find_latent_bridges: the candidates' symbols, in return order
\*   drug     check_druggability, by ensembl id
\*   codex    validate_target, by symbol: the validated target's symbol,
\*            or NoTarget when validation returns None
\*   cite     verify_citation, by the validated symbol the claim names
\*   shared   whether validate_target hands out the same GeneticTarget
\*            object every time it answers with the same symbol (a client
\*            that keeps its records) or a new object at every call
NoTarget == ""
BridgeLists == {s \in SeqsUpTo(Symbols, Cardinality(Symbols)) : NoRepeat(s)}
Worlds ==
  [bridges : BridgeLists,
   drug : [{Ensembl(s) : s \in Symbols} -> DrugScores],
   codex : [Symbols -> Symbols \cup {NoTarget}],
   cite : [Symbols -> BOOLEAN],
   shared : BOOLEAN]

\* mutant: only a gap without any source node is turned away
HasNoSourceNodes(gap) == gap.source_nodes = <<>>

\* `not gap.source_nodes or len(gap.source_nodes) < 2`; an absent list and
\* an empty one are both <<>>, as both are false for `not`
HasTooFewSourceNodes(gap) == gap.source_nodes = <<>> \/ Len(gap.source_nodes) < 2

\* mutant: the failure result falls back to the default metadata
FailureResultWithoutMetadata(result_metadata) == BridgeResult(None, 0, <<>>)

\* the BridgeResult returned when no candidate is left (lines 148-152)
FailureResult(result_metadata) ==
  BridgeResult(None, result_metadata.bridges_found_count,
               result_metadata.considered_candidates)

\* mutant: no bridge is skipped
IsExcludedNever(bridge, excluded_targets) == FALSE

\* `excluded_targets and bridge.symbol in excluded_targets`
IsExcluded(bridge, excluded_targets) ==
  excluded_targets # <<>> /\ bridge.symbol \in Range(excluded_targets)

\* mutant: a score equal to the threshold counts as druggable
IsDruggableInclusive(druggability) == druggability >= DRUGGABILITY_THRESHOLD

\* `druggability > self.druggability_threshold`
IsDruggable(druggability) == druggability > DRUGGABILITY_THRESHOLD

\* mutant: a later candidate with the same score replaces the best one
IsBetterOrEqual(druggability, best_druggability) == druggability >= best_druggability

\* `druggability > best_druggability`
IsBetter(druggability, best_druggability) == druggability > best_druggability

\* `validated_target.druggability_score = druggability` (line 137) as seen
\* through best_candidate: when validated_target is the object best_candidate
\* refers to, the best candidate's score changes with it
ScoreWritten(best_candidate, validated_target, druggability, shared) ==
  IF /\ shared
     /\ best_candidate # None
     /\ best_candidate[1].symbol = validated_target.symbol
  THEN Some([best_candidate[1] EXCEPT !.druggability_score = druggability])
  ELSE best_candidate

RECURSIVE BridgeLoop(_, _, _, _, _)
\* the `for bridge in potential_bridges` loop from index i on; st holds
\* best_candidate and best_druggability
BridgeLoop(potential_bridges, excluded_targets, w, i, st) ==
  IF i > Len(potential_bridges) THEN st
  ELSE
    LET bridge == potential_bridges[i]
        druggability == w.drug[bridge.ensembl_id]
        validated_symbol == w.codex[bridge.symbol]
        validated_target == GeneticTarget(validated_symbol, druggability)
        next ==
          IF IsExcluded(bridge, excluded_targets) THEN st
          ELSE IF ~IsDruggable(druggability) THEN st
          ELSE IF validated_symbol = NoTarget THEN st
          ELSE IF ~w.cite[validated_symbol] THEN st
          ELSE IF IsBetter(druggability, st.best_druggability)
               THEN [best_candidate |-> Some(validated_target),
                     best_druggability |-> druggability]
               ELSE [st EXCEPT !.best_candidate =
                                 ScoreWritten(@, validated_target, druggability,
                                              w.shared)]
    IN  BridgeLoop(potential_bridges, excluded_targets, w, i + 1, next)

\* mutant: the new hypothesis comes with a critique left from a rejected one
NewHypothesisWithStaleCritique(hypothesis_id, best_candidate) ==
  [id |-> hypothesis_id,
   target_candidate |-> best_candidate,
   causal_validation_score |-> 0,
   killer_experiment_pico |-> "TBD",
   critiques |-> <<Critique("Clinician", <<"f">>, "MEDIUM")>>]

\* Hypothesis(...) as constructed at the end of generate_hypothesis
NewHypothesis(hypothesis_id, best_candidate) ==
  [id |-> hypothesis_id,
   target_candidate |-> best_candidate,
   causal_validation_score |-> 0,
   killer_experiment_pico |-> "TBD",
   critiques |-> <<>>]

\* BridgeBuilderImpl.generate_hypothesis; hypothesis_id is the fresh uuid4
generate_hypothesis(gap, excluded_targets, w, hypothesis_id) ==
  IF HasTooFewSourceNodes(gap) THEN BridgeResult(None, 0, <<>>)
  ELSE
    LET potential_bridges == [i \in 1..Len(w.bridges) |-> GeneticTarget(w.bridges[i], 0)]
        considered == [i \in 1..Len(potential_bridges) |-> potential_bridges[i].symbol]
        result_metadata == [bridges_found_count |-> Len(potential_bridges),
                            considered_candidates |-> considered]
        st == BridgeLoop(potential_bridges, excluded_targets, w, 1,
                         [best_candidate |-> None, best_druggability |-> 0 - 1])
    IN  IF potential_bridges = <<>> THEN BridgeResult(None, 0, <<>>)
        ELSE IF st.best_candidate = None
        THEN FailureResult(result_metadata)
        ELSE BridgeResult(Some(NewHypothesis(hypothesis_id, st.best_candidate[1])),
                          Len(potential_bridges), considered)

\* ------------------------------------------------------------ engine.py
VARIABLES
  max_retries,       \* self.max_retries
  pc,                \* where run is: the call it awaits, or how it ended
  gaps,              \* the list the scanner returned
  gap_index,         \* position of `gap` in gaps (the for loop)
  excluded_targets,  \* excluded_targets of the gap in hand
  attempts,          \* attempts of the gap in hand
  trace,             \* trace of the gap in hand
  hypothesis,        \* hypothesis (None until the gap's first attempt
                     \* assigns it at line 141)
  results,           \* results
  returned,          \* what run returned (None until it returns)
  bridge_calls,      \* history: the excluded_targets of every
                     \* generate_hypothesis call made for the gap in hand
  veritas_log,       \* history: the log_trace calls of the run, in order
  caught,            \* history: the exceptions the except clause caught
  bridge_builder,    \* one call of BridgeBuilderImpl.generate_hypothesis
                     \* followed from await to await: its arguments, its
                     \* locals and where it is
  adversarial_reviewer,  \* one call of AdversarialReviewerImpl.review
                     \* followed from client call to client call
  entry_point,       \* one call of main.generate_hypothesis: its arguments
                     \* and where it is
  server             \* the service of server.py: the engine it shares
                     \* between requests and the requests it has received

engine_vars == <<max_retries, pc, gaps, gap_index, excluded_targets, attempts, trace,
                 hypothesis, results, returned, bridge_calls, veritas_log, caught>>

vars == <<engine_vars, bridge_builder, adversarial_reviewer, entry_point, server>>

\* no call of the component is being followed
NoCall == [pc |-> "idle"]

\* the gap lists a scan returns (each gap by its source_nodes; ids are the
\* gaps' positions): gaps with two nodes and gaps with too few
GapLists ==
  UNION {[1..n -> {sn \in SourceNodeLists : Len(sn) >= 1}] : n \in 0..MaxGaps}

KnowledgeGap(id, source_nodes) == [id |-> id, source_nodes |-> source_nodes]

gap == gaps[gap_index]

\* str(uuid.uuid4()): a non-empty string.  run never compares two ids, and
\* the model does not tell apart the ids drawn for one gap.
uuid4 == <<"hyp", gap.id>>

\* one log_trace call: the gap and status of the trace it was given, and
\* whether the call returned (ok) or raised
LogEntry(data, ok) ==
  [gap_id |-> data.gap_id, status |-> data.status, ok |-> ok]

Init ==
  /\ bridge_builder = NoCall
  /\ adversarial_reviewer = NoCall
  /\ entry_point = NoCall
  /\ server = NoCall
  /\ max_retries \in 0..MaxRetries
  /\ pc = "scan"
  /\ gaps = <<>>
  /\ gap_index = 0
  /\ excluded_targets = <<>>
  /\ attempts = 0
  /\ trace = None
  /\ hypothesis = None
  /\ results = <<>>
  /\ returned = None
  /\ bridge_calls = <<>>
  /\ veritas_log = <<>>
  /\ caught = <<>>

\* mutant: one attempt too many
LoopContinuesOffByOne(n) == n <= max_retries

\* `while attempts < self.max_retries`
LoopContinues(n) == n < max_retries

\* `trace.excluded_targets_history = list(excluded_targets)`
HistoryAtAttempt(excluded) == excluded

\* mutant: the retries are the attempts
RetriesAtAttemptIsAttempts(n) == n

\* `trace.refinement_retries = attempts - 1`
RetriesAtAttempt(n) == n - 1

\* mutant: the loop goes round without counting the attempt or taking the
\* new exclusion
WhileHeadWithoutCounting(excluded, n, tr, calls) ==
  /\ excluded_targets' = excluded_targets
  /\ IF LoopContinues(n)
     THEN /\ attempts' = attempts
          /\ trace' = Some(tr)
          /\ bridge_calls' = bridge_calls
          /\ pc' = "generate_hypothesis"
     ELSE /\ attempts' = n
          /\ trace' = Some(tr)
          /\ bridge_calls' = calls
          /\ pc' = "log_trace_failed"

\* The head of the while loop, entered with the given excluded_targets,
\* attempts and trace (calls: the generate_hypothesis calls made so far for
\* the gap): either the next attempt starts and run awaits
\* generate_hypothesis, or the loop is over and, the status not being
\* ACCEPTED, run awaits log_trace (line 208).
WhileHead(excluded, n, tr, calls) ==
  /\ excluded_targets' = excluded
  /\ IF LoopContinues(n)
     THEN /\ attempts' = n + 1
          /\ trace' = Some([tr EXCEPT
                              !.excluded_targets_history = HistoryAtAttempt(excluded),
                              !.refinement_retries = RetriesAtAttempt(n + 1)])
          /\ bridge_calls' = Append(calls, excluded)
          /\ pc' = "generate_hypothesis"
     ELSE /\ attempts' = n
          /\ trace' = Some(tr)
          /\ bridge_calls' = calls
          /\ pc' = "log_trace_failed"

\* mutant: the exclusion list is carried over from the gap before
StartGapKeepingExclusions(g) ==
  /\ gap_index' = g.id
  /\ WhileHead(excluded_targets, 0, HypothesisTrace(g), <<>>)

\* The body of the for loop starts for gap g: lines 115-119, then the loop
StartGap(g) ==
  /\ gap_index' = g.id
  /\ WhileHead(<<>>, 0, HypothesisTrace(g), <<>>)

\* The for loop moves to the gap after gap_index, or run returns results.
ForNext(res) ==
  /\ results' = res
  /\ hypothesis' = None
  /\ IF gap_index < Len(gaps)
     THEN /\ StartGap(gaps[gap_index + 1])
          /\ returned' = returned
     ELSE /\ pc' = "returned"
          /\ returned' = Some(res)
          /\ UNCHANGED <<gap_index, excluded_targets, attempts, trace, bridge_calls>>

\* `except Exception as e`: the status becomes ERROR and run awaits
\* log_trace (line 217)
ExceptHandler(msg) ==
  /\ trace' = Some([trace[1] EXCEPT !.status = ErrorStatus(msg)])
  /\ pc' = "log_trace_error"
  /\ caught' = Append(caught, [gap_id |-> trace[1].gap_id, msg |-> msg])
  /\ UNCHANGED <<excluded_targets, attempts, bridge_calls>>

\* gap_scanner.scan returns: no gaps, return []; else the first gap starts
ScanReturns ==
  /\ UNCHANGED <<bridge_builder, adversarial_reviewer, entry_point, server>>
  /\ pc = "scan"
  /\ \E gs \in GapLists :
       /\ gaps' = [i \in 1..Len(gs) |-> KnowledgeGap(i, gs[i])]
       /\ IF gs = <<>>
          THEN /\ pc' = "returned"
               /\ returned' = Some(<<>>)
               /\ UNCHANGED <<gap_index, excluded_targets, attempts, trace, bridge_calls>>
          ELSE /\ StartGap(KnowledgeGap(1, gs[1]))
               /\ returned' = returned
  /\ UNCHANGED <<caught, max_retries, hypothesis, results, veritas_log>>

\* gap_scanner.scan raises: outside the try, run raises
ScanRaises ==
  /\ UNCHANGED <<bridge_builder, adversarial_reviewer, entry_point, server>>
  /\ pc = "scan"
  /\ pc' = "raised"
  /\ UNCHANGED <<caught, max_retries, gaps, gap_index, excluded_targets, attempts, trace,
                 hypothesis, results, returned, bridge_calls, veritas_log>>

\* the answers the clients give while run drives the builder: any candidate
\* list and any ontology answer; every candidate is druggable (0.7) and
\* every citation is verified (all scores being equal, it makes no
\* difference whether the ontology's objects are shared)
EngineWorlds ==
  {w \in Worlds : /\ \A s \in Symbols : w.drug[Ensembl(s)] = 7
                  /\ \A s \in Symbols : w.cite[s]
                  /\ ~w.shared}

\* bridge_builder.generate_hypothesis returns (lines 133-150)
GenerateHypothesisReturns ==
  /\ UNCHANGED <<bridge_builder, adversarial_reviewer, entry_point, server>>
  /\ pc = "generate_hypothesis"
  /\ \E bridge_result \in
          {generate_hypothesis(gap, excluded_targets, w, uuid4) : w \in EngineWorlds} :
       LET tr == trace[1]
       IN  IF bridge_result.hypothesis = None
           THEN /\ trace' = Some([tr EXCEPT !.status = DiscardedNoBridge])
                /\ hypothesis' = None
                /\ pc' = "log_trace_failed"
           ELSE /\ trace' = Some([tr EXCEPT
                                    !.hypothesis_id = Some(bridge_result.hypothesis[1].id)])
                /\ hypothesis' = bridge_result.hypothesis
                /\ pc' = "validate"
  /\ UNCHANGED <<caught, max_retries, gaps, gap_index, excluded_targets, attempts, results,
                 returned, bridge_calls, veritas_log>>

GenerateHypothesisRaises ==
  /\ UNCHANGED <<bridge_builder, adversarial_reviewer, entry_point, server>>
  /\ pc = "generate_hypothesis"
  /\ \E msg \in Messages : ExceptHandler(msg)
  /\ UNCHANGED <<max_retries, gaps, gap_index, hypothesis, results, returned, veritas_log>>

\* mutant: a score of exactly 0.5 is discarded too
LowCausalScoreInclusive(score) == score <= CausalFloor

\* `hypothesis.causal_validation_score < 0.5`
LowCausalScore(score) == score < CausalFloor

\* causal_validator.validate returns (lines 153-166)
ValidateReturns ==
  /\ UNCHANGED <<bridge_builder, adversarial_reviewer, entry_point, server>>
  /\ pc = "validate"
  /\ \E score \in CausalScores :
       LET h == validate(hypothesis[1], score)
           tr == trace[1]
       IN  /\ hypothesis' = Some(h)
           /\ IF LowCausalScore(h.causal_validation_score)
              THEN /\ trace' = Some([tr EXCEPT !.status = DiscardedLowCausalScore])
                   /\ pc' = "log_trace_failed"
              ELSE /\ trace' = Some(tr)
                   /\ pc' = "review"
  /\ UNCHANGED <<caught, max_retries, gaps, gap_index, excluded_targets, attempts, results,
                 returned, bridge_calls, veritas_log>>

ValidateRaises ==
  /\ UNCHANGED <<bridge_builder, adversarial_reviewer, entry_point, server>>
  /\ pc = "validate"
  /\ \E msg \in Messages : ExceptHandler(msg)
  /\ UNCHANGED <<max_retries, gaps, gap_index, hypothesis, results, returned, veritas_log>>

\* what a client of the review returns: nothing or one finding
FindingLists == {<<>>, <<<<"f">>>>}

\* mutant: only the toxicologist's critiques count as fatal
IsFatalToxicologistOnly(c) == c.severity = "FATAL" /\ c.source = "Toxicologist"

\* mutant: HIGH critiques count as fatal too
IsFatalOrHigh(c) == c.severity \in {"FATAL", "HIGH"}

\* `[c for c in hypothesis.critiques if c.severity == CritiqueSeverity.FATAL]`
IsFatal(c) == c.severity = "FATAL"
\* mutant: only the first critique is looked at
fatal_critiques_of_first(h) ==
  IF h.critiques = <<>> THEN <<>> ELSE SelectSeq(<<h.critiques[1]>>, IsFatal)

fatal_critiques(h) == SelectSeq(h.critiques, IsFatal)

\* mutant: the newest rejection goes to the front of the list
ExcludePrepended(excluded, target_symbol) == <<target_symbol>> \o excluded

\* `excluded_targets.append(target_symbol)`
Exclude(excluded, target_symbol) == Append(excluded, target_symbol)

\* adversarial_reviewer.review returns (lines 169-183): a FATAL critique
\* excludes the target and the loop continues; otherwise run awaits
\* design_experiment
ReviewReturns ==
  /\ UNCHANGED <<bridge_builder, adversarial_reviewer, entry_point, server>>
  /\ pc = "review"
  /\ \E tox_risks \in FindingLists, redundancies \in FindingLists,
        patents \in FindingLists, disconfirming_evidence \in FindingLists :
       LET h == review(hypothesis[1], tox_risks, redundancies, patents,
                       disconfirming_evidence)
           tr == trace[1]
       IN  /\ hypothesis' = Some(h)
           /\ IF fatal_critiques(h) # <<>>
              THEN WhileHead(Exclude(excluded_targets, h.target_candidate.symbol),
                             attempts, tr, bridge_calls)
              ELSE /\ trace' = Some(tr)
                   /\ pc' = "design_experiment"
                   /\ UNCHANGED <<excluded_targets, attempts, bridge_calls>>
  /\ UNCHANGED <<caught, max_retries, gaps, gap_index, results, returned, veritas_log>>

ReviewRaises ==
  /\ UNCHANGED <<bridge_builder, adversarial_reviewer, entry_point, server>>
  /\ pc = "review"
  /\ \E msg \in Messages : ExceptHandler(msg)
  /\ UNCHANGED <<max_retries, gaps, gap_index, hypothesis, results, returned, veritas_log>>

\* protocol_designer.design_experiment returns (lines 187-199): the trace
\* is ACCEPTED and, having a hypothesis id, is logged (line 194)
DesignExperimentReturns ==
  /\ UNCHANGED <<bridge_builder, adversarial_reviewer, entry_point, server>>
  /\ pc = "design_experiment"
  /\ LET h == design_experiment(hypothesis[1])
         tr == [trace[1] EXCEPT !.result = Some(h), !.status = ACCEPTED]
     IN  /\ IF tr.hypothesis_id # None
            THEN /\ trace' = Some(tr)
                 /\ hypothesis' = Some(h)
                 /\ pc' = "log_trace_accepted"
                 /\ UNCHANGED <<gap_index, excluded_targets, attempts, results,
                                returned, bridge_calls>>
            ELSE ForNext(Append(results, h))
  /\ UNCHANGED <<caught, max_retries, gaps, veritas_log>>

DesignExperimentRaises ==
  /\ UNCHANGED <<bridge_builder, adversarial_reviewer, entry_point, server>>
  /\ pc = "design_experiment"
  /\ \E msg \in Messages : ExceptHandler(msg)
  /\ UNCHANGED <<max_retries, gaps, gap_index, hypothesis, results, returned, veritas_log>>

\* log_trace of an accepted trace returns (lines 194-200): the hypothesis
\* joins results and the loop is left; the status being ACCEPTED, nothing
\* more is logged
LogTraceAcceptedReturns ==
  /\ UNCHANGED <<bridge_builder, adversarial_reviewer, entry_point, server>>
  /\ pc = "log_trace_accepted"
  /\ veritas_log' = Append(veritas_log, LogEntry(trace[1], TRUE))
  /\ ForNext(Append(results, hypothesis[1]))
  /\ UNCHANGED <<caught, max_retries, gaps>>

\* mutant: results.append(hypothesis) comes before the log_trace call
LogTraceAcceptedRaisesAfterAppend ==
  /\ UNCHANGED <<bridge_builder, adversarial_reviewer, entry_point, server>>
  /\ pc = "log_trace_accepted"
  /\ veritas_log' = Append(veritas_log, LogEntry(trace[1], FALSE))
  /\ \E msg \in Messages : ExceptHandler(msg)
  /\ results' = Append(results, hypothesis[1])
  /\ UNCHANGED <<max_retries, gaps, gap_index, hypothesis, returned>>

\* log_trace of an accepted trace raises: the except clause takes over
LogTraceAcceptedRaises ==
  /\ UNCHANGED <<bridge_builder, adversarial_reviewer, entry_point, server>>
  /\ pc = "log_trace_accepted"
  /\ veritas_log' = Append(veritas_log, LogEntry(trace[1], FALSE))
  /\ \E msg \in Messages : ExceptHandler(msg)
  /\ UNCHANGED <<max_retries, gaps, gap_index, hypothesis, results, returned>>

\* log_trace after the loop (lines 203-211) returns
LogTraceFailedReturns ==
  /\ UNCHANGED <<bridge_builder, adversarial_reviewer, entry_point, server>>
  /\ pc = "log_trace_failed"
  /\ veritas_log' = Append(veritas_log, LogEntry(trace[1], TRUE))
  /\ ForNext(results)
  /\ UNCHANGED <<caught, max_retries, gaps>>

LogTraceFailedRaises ==
  /\ UNCHANGED <<bridge_builder, adversarial_reviewer, entry_point, server>>
  /\ pc = "log_trace_failed"
  /\ veritas_log' = Append(veritas_log, LogEntry(trace[1], FALSE))
  /\ \E msg \in Messages : ExceptHandler(msg)
  /\ UNCHANGED <<max_retries, gaps, gap_index, hypothesis, results, returned>>

\* log_trace in the except handler (lines 216-221) returns: `continue`
LogTraceErrorReturns ==
  /\ UNCHANGED <<bridge_builder, adversarial_reviewer, entry_point, server>>
  /\ pc = "log_trace_error"
  /\ veritas_log' = Append(veritas_log, LogEntry(trace[1], TRUE))
  /\ ForNext(results)
  /\ UNCHANGED <<caught, max_retries, gaps>>

\* log_trace in the except handler raises: nothing catches it, run raises
LogTraceErrorRaises ==
  /\ UNCHANGED <<bridge_builder, adversarial_reviewer, entry_point, server>>
  /\ pc = "log_trace_error"
  /\ veritas_log' = Append(veritas_log, LogEntry(trace[1], FALSE))
  /\ pc' = "raised"
  /\ UNCHANGED <<caught, max_retries, gaps, gap_index, excluded_targets, attempts, trace,
                 hypothesis, results, returned, bridge_calls>>

Next ==
  \/ ScanReturns
  \/ ScanRaises
  \/ GenerateHypothesisReturns
  \/ GenerateHypothesisRaises
  \/ ValidateReturns
  \/ ValidateRaises
  \/ ReviewReturns
  \/ ReviewRaises
  \/ DesignExperimentReturns
  \/ DesignExperimentRaises
  \/ LogTraceAcceptedReturns
  \/ LogTraceAcceptedRaises
  \/ LogTraceFailedReturns
  \/ LogTraceFailedRaises
  \/ LogTraceErrorReturns
  \/ LogTraceErrorRaises

Spec == Init /\ [][Next]_vars

\* run when every collaborator call it awaits returns or raises: from any
\* awaiting position some step of run is eventually taken
LiveSpec == Init /\ [][Next]_vars /\ WF_vars(Next)

\* ------------------------------ bridge_builder.py, from await to await
\* One call of generate_hypothesis with its clients' answers fixed by a
\* world w.  The frame holds the arguments, the locals of the function, the
\* client calls made so far (history) and the BridgeResult once returned.
MaxExcluded == 2
ExcludedLists == SeqsUpTo(Symbols, MaxExcluded)

BuilderFrame(g, excluded, w) ==
  [pc |-> "start",
   gap |-> g,
   excluded_targets |-> excluded,
   world |-> w,
   potential_bridges |-> <<>>,
   result_metadata |-> [bridges_found_count |-> 0, considered_candidates |-> <<>>],
   index |-> 0,
   druggability |-> 0,
   validated_target |-> None,
   best_candidate |-> None,
   best_druggability |-> 0 - 1,
   client_calls |-> <<>>,
   result |-> None]

ClientCall(client, method, args) == [client |-> client, method |-> method, args |-> args]

\* `bridge`, the loop variable
bridge == bridge_builder.potential_bridges[bridge_builder.index]

RECURSIVE NextCandidate(_, _, _)
\* the for loop from index i on, as long as it skips excluded bridges
\* (lines 115-119): the index of the first bridge that is not excluded, or
\* Len + 1 when the loop is over
NextCandidate(potential_bridges, excluded, i) ==
  IF i > Len(potential_bridges) THEN i
  ELSE IF IsExcluded(potential_bridges[i], excluded)
       THEN NextCandidate(potential_bridges, excluded, i + 1)
       ELSE i

\* the BridgeResult returned with a hypothesis (lines 155-176)
SuccessResult(g, best_candidate, result_metadata) ==
  BridgeResult(Some(NewHypothesis(<<"hyp", g.id>>, best_candidate)),
               result_metadata.bridges_found_count,
               result_metadata.considered_candidates)

\* The frame f goes on with the for loop at index i: the next bridge that
\* is not excluded has its druggability checked (line 122), or the loop is
\* over and the function returns (lines 145-176).  druggability and
\* validated_target are not read again before they are assigned, and are
\* put back to their first values.
ForBridge(f, i) ==
  LET j == NextCandidate(f.potential_bridges, f.excluded_targets, i)
      g == [f EXCEPT !.index = j, !.druggability = 0, !.validated_target = None]
  IN  IF j > Len(f.potential_bridges)
      THEN [g EXCEPT !.pc = "returned",
                     !.result =
                       Some(IF f.best_candidate = None
                            THEN FailureResult(f.result_metadata)
                            ELSE SuccessResult(f.gap, f.best_candidate[1],
                                               f.result_metadata))]
      ELSE [g EXCEPT !.pc = "check_druggability",
                     !.client_calls =
                       Append(@, ClientCall("prism_client", "check_druggability",
                                            <<f.potential_bridges[j].ensembl_id>>))]

\* lines 85-102: too few source nodes, return at once; else the graph is
\* asked for the bridges between the first two source nodes (indexing a
\* list that is too short raises IndexError)
BuilderStart ==
  /\ bridge_builder.pc = "start"
  /\ bridge_builder' =
       IF HasTooFewSourceNodes(bridge_builder.gap)
       THEN [bridge_builder EXCEPT !.pc = "returned",
                                   !.result = Some(BridgeResult(None, 0, <<>>))]
       ELSE IF Len(bridge_builder.gap.source_nodes) < 2
       THEN [bridge_builder EXCEPT !.pc = "raised"]
       ELSE [bridge_builder EXCEPT
               !.pc = "find_latent_bridges",
               !.client_calls =
                 Append(@, ClientCall("graph_client", "find_latent_bridges",
                                      <<bridge_builder.gap.source_nodes[1],
                                        bridge_builder.gap.source_nodes[2]>>))]
  /\ UNCHANGED <<engine_vars, adversarial_reviewer, entry_point, server>>

\* find_latent_bridges returns (lines 102-115)
FindLatentBridgesReturns ==
  /\ bridge_builder.pc = "find_latent_bridges"
  /\ LET w == bridge_builder.world
         potential_bridges == [i \in 1..Len(w.bridges) |-> GeneticTarget(w.bridges[i], 0)]
         f == [bridge_builder EXCEPT
                 !.potential_bridges = potential_bridges,
                 !.result_metadata =
                   [bridges_found_count |-> Len(potential_bridges),
                    considered_candidates |->
                      [i \in 1..Len(potential_bridges) |-> potential_bridges[i].symbol]]]
     IN  bridge_builder' =
           IF potential_bridges = <<>>
           THEN [f EXCEPT !.pc = "returned",
                          !.result = Some(BridgeResult(None, 0, <<>>))]
           ELSE ForBridge(f, 1)
  /\ UNCHANGED <<engine_vars, adversarial_reviewer, entry_point, server>>

\* check_druggability returns (lines 122-125)
CheckDruggabilityReturns ==
  /\ bridge_builder.pc = "check_druggability"
  /\ LET druggability == bridge_builder.world.drug[bridge.ensembl_id]
         f == [bridge_builder EXCEPT !.druggability = druggability]
     IN  bridge_builder' =
           IF IsDruggable(druggability)
           THEN [f EXCEPT !.pc = "validate_target",
                          !.client_calls =
                            Append(@, ClientCall("codex_client", "validate_target",
                                                 <<bridge.symbol>>))]
           ELSE ForBridge(f, bridge_builder.index + 1)
  /\ UNCHANGED <<engine_vars, adversarial_reviewer, entry_point, server>>

\* validate_target returns (lines 125-133); the druggability_score the
\* ontology gives is overwritten before anything reads it
ValidateTargetReturns ==
  /\ bridge_builder.pc = "validate_target"
  /\ LET validated_symbol == bridge_builder.world.codex[bridge.symbol]
     IN  bridge_builder' =
           IF validated_symbol # NoTarget
           THEN [bridge_builder EXCEPT
                   !.pc = "verify_citation",
                   !.validated_target = Some(GeneticTarget(validated_symbol, 0)),
                   !.client_calls =
                     Append(@, ClientCall("search_client", "verify_citation",
                                          <<bridge_builder.gap.source_nodes[1],
                                            " interacts with ", validated_symbol,
                                            " and ", validated_symbol, " affects ",
                                            bridge_builder.gap.source_nodes[2]>>))]
           ELSE ForBridge(bridge_builder, bridge_builder.index + 1)
  /\ UNCHANGED <<engine_vars, adversarial_reviewer, entry_point, server>>

\* verify_citation returns (lines 133-143)
VerifyCitationReturns ==
  /\ bridge_builder.pc = "verify_citation"
  /\ LET validated_target == bridge_builder.validated_target[1]
         is_verified == bridge_builder.world.cite[validated_target.symbol]
         druggability == bridge_builder.druggability
     IN  bridge_builder' =
           IF is_verified /\ IsBetter(druggability, bridge_builder.best_druggability)
           THEN ForBridge([bridge_builder EXCEPT
                             !.best_druggability = druggability,
                             !.best_candidate =
                               Some([validated_target EXCEPT
                                       !.druggability_score = druggability])],
                          bridge_builder.index + 1)
           ELSE IF is_verified
           THEN ForBridge([bridge_builder EXCEPT
                             !.best_candidate =
                               ScoreWritten(@, validated_target, druggability,
                                            bridge_builder.world.shared)],
                          bridge_builder.index + 1)
           ELSE ForBridge(bridge_builder, bridge_builder.index + 1)
  /\ UNCHANGED <<engine_vars, adversarial_reviewer, entry_point, server>>

\* the engine is not running
EngineIdle ==
  /\ max_retries = MaxRetries
  /\ pc = "idle"
  /\ gaps = <<>>
  /\ gap_index = 0
  /\ excluded_targets = <<>>
  /\ attempts = 0
  /\ trace = None
  /\ hypothesis = None
  /\ results = <<>>
  /\ returned = None
  /\ bridge_calls = <<>>
  /\ veritas_log = <<>>
  /\ caught = <<>>

\* generate_hypothesis is called with any gap, any exclusion list and any
\* answers of the four clients
BuilderInit ==
  /\ EngineIdle
  /\ adversarial_reviewer = NoCall
  /\ entry_point = NoCall
  /\ server = NoCall
  /\ bridge_builder \in
       {BuilderFrame(KnowledgeGap(1, source_nodes), excluded, w) :
          source_nodes \in SourceNodeLists, excluded \in ExcludedLists, w \in Worlds}

BuilderNext ==
  \/ BuilderStart
  \/ FindLatentBridgesReturns
  \/ CheckDruggabilityReturns
  \/ ValidateTargetReturns
  \/ VerifyCitationReturns

BuilderSpec == BuilderInit /\ [][BuilderNext]_vars

\* ----------------- adversarial_reviewer.py, from client call to client call
\* One call of review.  The frame holds the hypothesis (the argument, which
\* line 102 changes in place), the local list critiques, the critiques the
\* hypothesis came with (history), the client calls made so far with what
\* each returned or raised (history), and how the call ended.
MaxFindings == 2
ReviewFindingLists == SeqsUpTo({<<"f">>, <<"g">>}, MaxFindings)
ReviewMessages == {"unavailable", "timeout"}

\* the hypotheses handed to review: fresh from the builder, or with a
\* critique already on them
ReviewedHypotheses ==
  {[NewHypothesis(<<"hyp", 1>>, GeneticTarget("X", 7)) EXCEPT !.critiques = cs] :
     cs \in {<<>>, <<Critique("Earlier", <<"e">>, "LOW")>>}}

ReviewerFrame(h) ==
  [pc |-> "run_toxicology_screen",
   hypothesis |-> h,
   critiques |-> <<>>,
   critiques_before |-> h.critiques,
   client_calls |-> <<>>,
   result |-> None,
   error |-> None]

ClientReturned(method, findings) ==
  [method |-> method, outcome |-> "returned", value |-> findings]

ClientRaised(method, msg) ==
  [method |-> method, outcome |-> "raised", value |-> msg]

\* a client call of review raises: nothing in review catches it
ReviewPropagates(method, msg) ==
  [adversarial_reviewer EXCEPT
     !.pc = "raised",
     !.error = Some(msg),
     !.client_calls = Append(@, ClientRaised(method, msg))]

\* a client call of review returned findings, formatted is what the check
\* adds to critiques (`critiques.extend(...)`); review goes on to next_pc
ReviewExtends(method, findings, formatted, next_pc) ==
  [adversarial_reviewer EXCEPT
     !.pc = next_pc,
     !.critiques = @ \o formatted,
     !.client_calls = Append(@, ClientReturned(method, findings))]

\* A client call of review returned None instead of a list: the `if` that
\* follows each call takes None as it takes an empty list, nothing is added
\* to critiques and review goes on to next_pc.
ClientReturnedNone(method) ==
  [method |-> method, outcome |-> "returned_none", value |-> <<>>]

ReviewSkips(method, next_pc) ==
  [adversarial_reviewer EXCEPT
     !.pc = next_pc,
     !.client_calls = Append(@, ClientReturnedNone(method))]

\* lines 101-109: the critiques are appended to the hypothesis of frame f,
\* which is returned
ReviewFinishes(f) ==
  LET h == [f.hypothesis EXCEPT !.critiques = @ \o f.critiques]
  IN  [f EXCEPT !.hypothesis = h, !.result = Some(h)]

\* 1. The Toxicologist (lines 39-47)
RunToxicologyScreenReturns ==
  /\ adversarial_reviewer.pc = "run_toxicology_screen"
  /\ \E tox_risks \in ReviewFindingLists :
       adversarial_reviewer' =
         ReviewExtends("run_toxicology_screen", tox_risks,
                       ToxicologyStrategy(tox_risks), "check_clinical_redundancy")
  /\ UNCHANGED <<engine_vars, bridge_builder, entry_point, server>>

RunToxicologyScreenReturnsNone ==
  /\ adversarial_reviewer.pc = "run_toxicology_screen"
  /\ adversarial_reviewer' = ReviewSkips("run_toxicology_screen", "check_clinical_redundancy")
  /\ UNCHANGED <<engine_vars, bridge_builder, entry_point, server>>

RunToxicologyScreenRaises ==
  /\ adversarial_reviewer.pc = "run_toxicology_screen"
  /\ \E msg \in ReviewMessages :
       adversarial_reviewer' = ReviewPropagates("run_toxicology_screen", msg)
  /\ UNCHANGED <<engine_vars, bridge_builder, entry_point, server>>

\* 2. The Clinician (lines 49-59)
CheckClinicalRedundancyReturns ==
  /\ adversarial_reviewer.pc = "check_clinical_redundancy"
  /\ \E redundancies \in ReviewFindingLists :
       adversarial_reviewer' =
         ReviewExtends("check_clinical_redundancy", redundancies,
                       ClinicalRedundancyStrategy(redundancies),
                       "check_patent_infringement")
  /\ UNCHANGED <<engine_vars, bridge_builder, entry_point, server>>

CheckClinicalRedundancyReturnsNone ==
  /\ adversarial_reviewer.pc = "check_clinical_redundancy"
  /\ adversarial_reviewer' = ReviewSkips("check_clinical_redundancy", "check_patent_infringement")
  /\ UNCHANGED <<engine_vars, bridge_builder, entry_point, server>>

CheckClinicalRedundancyRaises ==
  /\ adversarial_reviewer.pc = "check_clinical_redundancy"
  /\ \E msg \in ReviewMessages :
       adversarial_reviewer' = ReviewPropagates("check_clinical_redundancy", msg)
  /\ UNCHANGED <<engine_vars, bridge_builder, entry_point, server>>

\* 3. The IP Strategist (lines 61-71)
CheckPatentInfringementReturns ==
  /\ adversarial_reviewer.pc = "check_patent_infringement"
  /\ \E patents \in ReviewFindingLists :
       adversarial_reviewer' =
         ReviewExtends("check_patent_infringement", patents,
                       PatentStrategy(patents), "find_disconfirming_evidence")
  /\ UNCHANGED <<engine_vars, bridge_builder, entry_point, server>>

CheckPatentInfringementReturnsNone ==
  /\ adversarial_reviewer.pc = "check_patent_infringement"
  /\ adversarial_reviewer' = ReviewSkips("check_patent_infringement", "find_disconfirming_evidence")
  /\ UNCHANGED <<engine_vars, bridge_builder, entry_point, server>>

\* mutant: the reviewer swallows the error and goes on without findings
CheckPatentInfringementRaisesCaught ==
  /\ adversarial_reviewer.pc = "check_patent_infringement"
  /\ \E msg \in ReviewMessages :
       adversarial_reviewer' =
         [adversarial_reviewer EXCEPT
            !.pc = "find_disconfirming_evidence",
            !.client_calls = Append(@, ClientRaised("check_patent_infringement", msg))]
  /\ UNCHANGED <<engine_vars, bridge_builder, entry_point, server>>

CheckPatentInfringementRaises ==
  /\ adversarial_reviewer.pc = "check_patent_infringement"
  /\ \E msg \in ReviewMessages :
       adversarial_reviewer' = ReviewPropagates("check_patent_infringement", msg)
  /\ UNCHANGED <<engine_vars, bridge_builder, entry_point, server>>

\* 4. The Scientific Skeptic, then the critiques are appended to the
\* hypothesis, which is returned (lines 73-109)
FindDisconfirmingEvidenceReturns ==
  /\ adversarial_reviewer.pc = "find_disconfirming_evidence"
  /\ \E disconfirming_evidence \in ReviewFindingLists :
       adversarial_reviewer' =
         ReviewFinishes(ReviewExtends("find_disconfirming_evidence",
                                      disconfirming_evidence,
                                      ScientificSkepticStrategy(disconfirming_evidence),
                                      "returned"))
  /\ UNCHANGED <<engine_vars, bridge_builder, entry_point, server>>

FindDisconfirmingEvidenceReturnsNone ==
  /\ adversarial_reviewer.pc = "find_disconfirming_evidence"
  /\ adversarial_reviewer' =
       ReviewFinishes(ReviewSkips("find_disconfirming_evidence", "returned"))
  /\ UNCHANGED <<engine_vars, bridge_builder, entry_point, server>>

FindDisconfirmingEvidenceRaises ==
  /\ adversarial_reviewer.pc = "find_disconfirming_evidence"
  /\ \E msg \in ReviewMessages :
       adversarial_reviewer' = ReviewPropagates("find_disconfirming_evidence", msg)
  /\ UNCHANGED <<engine_vars, bridge_builder, entry_point, server>>

\* review is called with any of the hypotheses
ReviewerInit ==
  /\ EngineIdle
  /\ bridge_builder = NoCall
  /\ entry_point = NoCall
  /\ server = NoCall
  /\ adversarial_reviewer \in {ReviewerFrame(h) : h \in ReviewedHypotheses}

ReviewerNext ==
  \/ RunToxicologyScreenReturns
  \/ RunToxicologyScreenReturnsNone
  \/ RunToxicologyScreenRaises
  \/ CheckClinicalRedundancyReturns
  \/ CheckClinicalRedundancyReturnsNone
  \/ CheckClinicalRedundancyRaises
  \/ CheckPatentInfringementReturns
  \/ CheckPatentInfringementReturnsNone
  \/ CheckPatentInfringementRaises
  \/ FindDisconfirmingEvidenceReturns
  \/ FindDisconfirmingEvidenceReturnsNone
  \/ FindDisconfirmingEvidenceRaises

ReviewerSpec == ReviewerInit /\ [][ReviewerNext]_vars

\* --------------------- adversarial_reviewer.py, call after call
\* review is called again and again on the same hypothesis object.  The
\* frame holds the hypothesis and, for every call made, the critiques the
\* hypothesis had when the call was made (history).
MaxReviews == 3

ReviewSequenceFrame(h) == [pc |-> "reviewed", hypothesis |-> h, seen |-> <<>>]

\* one call of review, from its first line to its return
ReviewCalled ==
  /\ adversarial_reviewer.pc = "reviewed"
  /\ Len(adversarial_reviewer.seen) < MaxReviews
  /\ \E tox_risks \in FindingLists, redundancies \in FindingLists,
        patents \in FindingLists, disconfirming_evidence \in FindingLists :
       adversarial_reviewer' =
         [adversarial_reviewer EXCEPT
            !.hypothesis = review(@, tox_risks, redundancies, patents,
                                  disconfirming_evidence),
            !.seen = Append(@, adversarial_reviewer.hypothesis.critiques)]
  /\ UNCHANGED <<engine_vars, bridge_builder, entry_point, server>>

ReviewSequenceInit ==
  /\ EngineIdle
  /\ bridge_builder = NoCall
  /\ entry_point = NoCall
  /\ server = NoCall
  /\ adversarial_reviewer \in {ReviewSequenceFrame(h) : h \in ReviewedHypotheses}

ReviewSequenceNext == ReviewCalled

ReviewSequenceSpec == ReviewSequenceInit /\ [][ReviewSequenceNext]_vars

\* ------------------------------------------------------------- main.py
\* One call of generate_hypothesis, the entry point.  The frame holds, for
\* each client parameter, whether a client was passed (TRUE) or the
\* parameter is None (FALSE), the context, where the call is and the error
\* it raised.  The service it builds runs the engine with
\* settings.MAX_RETRIES.
MAX_RETRIES == 3

ClientParameters ==
  {"graph_client", "codex_client", "search_client", "prism_client",
   "inference_client", "veritas_client"}

\* mutant: the veritas client is not checked
RequiredClientsWithoutVeritas ==
  <<[parameter |-> "graph_client", name |-> "GraphNexusClient"],
    [parameter |-> "codex_client", name |-> "CodexClient"],
    [parameter |-> "search_client", name |-> "SearchClient"],
    [parameter |-> "prism_client", name |-> "PrismClient"],
    [parameter |-> "inference_client", name |-> "InferenceClient"]>>

\* the `is None` checks in the order they are made, with the name each
\* puts in its error
RequiredClients ==
  <<[parameter |-> "graph_client", name |-> "GraphNexusClient"],
    [parameter |-> "codex_client", name |-> "CodexClient"],
    [parameter |-> "search_client", name |-> "SearchClient"],
    [parameter |-> "prism_client", name |-> "PrismClient"],
    [parameter |-> "inference_client", name |-> "InferenceClient"],
    [parameter |-> "veritas_client", name |-> "VeritasClient"]>>

EntryPointFrame(clients, context) ==
  [pc |-> "called", clients |-> clients, context |-> context, error |-> None]

\* the positions of the checks that find None
MissingChecks(f) ==
  {i \in DOMAIN RequiredClients : ~f.clients[RequiredClients[i].parameter]}

Min(S) == CHOOSE x \in S : \A y \in S : x <= y

\* one of the checks finds None: the first that does raises RuntimeError
MissingClientRaises ==
  /\ entry_point.pc = "called"
  /\ MissingChecks(entry_point) # {}
  /\ entry_point' =
       [entry_point EXCEPT
          !.pc = "raised",
          !.error = Some(<<"Missing required external client: ",
                           RequiredClients[Min(MissingChecks(entry_point))].name>>)]
  /\ UNCHANGED <<engine_vars, bridge_builder, adversarial_reviewer, server>>

\* every check passes: a None context is replaced by the cli user's, the
\* service is built and its run is entered
ServiceRunCalled ==
  /\ entry_point.pc = "called"
  /\ MissingChecks(entry_point) = {}
  /\ entry_point' =
       [entry_point EXCEPT
          !.pc = "run",
          !.context = IF @ = None THEN Some("cli-user") ELSE @]
  /\ pc = "idle"
  /\ pc' = "scan"
  /\ UNCHANGED <<max_retries, gaps, gap_index, excluded_targets, attempts, trace,
                 hypothesis, results, returned, bridge_calls, veritas_log, caught,
                 bridge_builder, adversarial_reviewer, server>>

\* service.run returns what the engine's run returned
ServiceRunReturns ==
  /\ entry_point.pc = "run"
  /\ pc = "returned"
  /\ entry_point' = [entry_point EXCEPT !.pc = "returned"]
  /\ UNCHANGED <<engine_vars, bridge_builder, adversarial_reviewer, server>>

\* the engine's run raised: so does generate_hypothesis
ServiceRunRaises ==
  /\ entry_point.pc = "run"
  /\ pc = "raised"
  /\ entry_point' = [entry_point EXCEPT !.pc = "run_raised"]
  /\ UNCHANGED <<engine_vars, bridge_builder, adversarial_reviewer, server>>

\* generate_hypothesis is called with any of its client parameters None
\* and with or without a context; no engine runs yet
MainInit ==
  /\ max_retries = MAX_RETRIES
  /\ pc = "idle"
  /\ gaps = <<>>
  /\ gap_index = 0
  /\ excluded_targets = <<>>
  /\ attempts = 0
  /\ trace = None
  /\ hypothesis = None
  /\ results = <<>>
  /\ returned = None
  /\ bridge_calls = <<>>
  /\ veritas_log = <<>>
  /\ caught = <<>>
  /\ bridge_builder = NoCall
  /\ adversarial_reviewer = NoCall
  /\ entry_point \in
       {EntryPointFrame(clients, context) :
          clients \in [ClientParameters -> BOOLEAN],
          context \in {None, Some("user")}}
  /\ server = NoCall

MainNext ==
  \/ MissingClientRaises
  \/ ServiceRunCalled
  \/ ServiceRunReturns
  \/ ServiceRunRaises
  \/ Next

MainSpec == MainInit /\ [][MainNext]_vars

\* ------------------------------------------- engine.py, run cancelled
\* run is cancelled while it awaits a collaborator: CancelledError is
\* raised at the await.  It is a BaseException, which `except Exception`
\* (line 213) does not catch, so it leaves run from wherever it arrives.
\* run's locals go with its frame; the histories stay, with gap_index and
\* gaps to tell which gap was in hand.  A log_trace call that was being
\* awaited is kept in veritas_log as a call that did not return.
AwaitPositions ==
  {"scan", "generate_hypothesis", "validate", "review", "design_experiment",
   "log_trace_accepted", "log_trace_failed", "log_trace_error"}

InFlightLog ==
  IF pc \in {"log_trace_accepted", "log_trace_failed", "log_trace_error"}
  THEN Append(veritas_log, LogEntry(trace[1], FALSE))
  ELSE veritas_log

\* mutant: inside the try, the except clause catches the cancellation as
\* it catches an error
CancelledCaughtByExcept ==
  /\ pc \in AwaitPositions \ {"scan", "log_trace_error"}
  /\ veritas_log' = InFlightLog
  /\ ExceptHandler("cancelled")
  /\ UNCHANGED <<max_retries, gaps, gap_index, hypothesis, results, returned,
                 bridge_builder, adversarial_reviewer, entry_point, server>>

Cancelled ==
  /\ pc \in AwaitPositions
  /\ pc' = "cancelled"
  /\ veritas_log' = InFlightLog
  /\ excluded_targets' = <<>>
  /\ attempts' = 0
  /\ trace' = None
  /\ hypothesis' = None
  /\ results' = <<>>
  /\ bridge_calls' = <<>>
  /\ UNCHANGED <<max_retries, gaps, gap_index, returned, caught,
                 bridge_builder, adversarial_reviewer, entry_point, server>>

CancelNext ==
  \/ Next
  \/ Cancelled

CancelSpec == Init /\ [][CancelNext]_vars

\* ----------------------------------------------------------- server.py
\* The service: lifespan builds one engine with settings.MAX_RETRIES and the
\* collaborators of the application and keeps it in app.state; every
\* /generate request is handled by generate_hypothesis_endpoint, and the
\* handlers of several requests run interleaved.  A request holds its
\* max_retries field (None when not supplied), where its handler is, the
\* engine its run is awaited on (the shared one, or a temporary one with
\* its own max_retries and the components it was given) and the value its
\* run last read from self.max_retries at the head of the while loop
\* (history).
MaxRequests == 2

HypothesisRequest(m) ==
  [max_retries |-> m, pc |-> "received", engine |-> None, seen |-> None]

\* the override a request may carry: none, or any integer (unchecked)
Overrides == {None} \cup {Some(n) : n \in 0..MaxRetries}

\* the engine a request runs on
EngineOf(r) ==
  IF r.engine[1].temp
  THEN [max_retries |-> r.engine[1].max_retries, components |-> r.engine[1].components]
  ELSE server.base_engine

\* a /generate request arrives
RequestReceived ==
  /\ server # NoCall
  /\ Len(server.requests) < MaxRequests
  /\ \E m \in Overrides :
       server' = [server EXCEPT !.requests = Append(@, HypothesisRequest(m))]
  /\ UNCHANGED <<engine_vars, bridge_builder, adversarial_reviewer, entry_point>>

\* mutant: the override is written into the shared engine, which runs the
\* request
EndpointCalledOverridingShared(i) ==
  /\ server # NoCall
  /\ i \in DOMAIN server.requests
  /\ server.requests[i].pc = "received"
  /\ server' =
       IF server.requests[i].max_retries # None
       THEN [server EXCEPT
               !.base_engine.max_retries = server.requests[i].max_retries[1],
               !.requests[i].pc = "run",
               !.requests[i].engine = Some([temp |-> FALSE])]
       ELSE [server EXCEPT
               !.requests[i].pc = "run",
               !.requests[i].engine = Some([temp |-> FALSE])]
  /\ UNCHANGED <<engine_vars, bridge_builder, adversarial_reviewer, entry_point>>

\* generate_hypothesis_endpoint up to its await (lines 101-126): with
\* max_retries supplied a temporary engine is built from the shared
\* engine's components and run; without, the shared engine is run
EndpointCalled(i) ==
  /\ server # NoCall
  /\ i \in DOMAIN server.requests
  /\ server.requests[i].pc = "received"
  /\ server' =
       IF server.requests[i].max_retries # None
       THEN [server EXCEPT
               !.requests[i].pc = "run",
               !.requests[i].engine =
                 Some([temp |-> TRUE,
                       max_retries |-> server.requests[i].max_retries[1],
                       components |-> server.base_engine.components])]
       ELSE [server EXCEPT
               !.requests[i].pc = "run",
               !.requests[i].engine = Some([temp |-> FALSE])]
  /\ UNCHANGED <<engine_vars, bridge_builder, adversarial_reviewer, entry_point>>

\* the run of request i comes to `while attempts < self.max_retries`
\* (engine.py 122) and reads the bound of the engine it runs on
RunReadsMaxRetries(i) ==
  /\ server # NoCall
  /\ i \in DOMAIN server.requests
  /\ server.requests[i].pc = "run"
  /\ server' = [server EXCEPT
                  !.requests[i].seen = Some(EngineOf(server.requests[i]).max_retries)]
  /\ UNCHANGED <<engine_vars, bridge_builder, adversarial_reviewer, entry_point>>

\* the run of request i is over and the handler answers
RunEnds(i) ==
  /\ server # NoCall
  /\ i \in DOMAIN server.requests
  /\ server.requests[i].pc = "run"
  /\ server' = [server EXCEPT !.requests[i].pc = "responded"]
  /\ UNCHANGED <<engine_vars, bridge_builder, adversarial_reviewer, entry_point>>

\* after lifespan has built the shared engine (lines 64-75, main.py 115-123)
ServerInit ==
  /\ EngineIdle
  /\ bridge_builder = NoCall
  /\ adversarial_reviewer = NoCall
  /\ entry_point = NoCall
  /\ server = [base_engine |-> [max_retries |-> MAX_RETRIES, components |-> "app.state"],
               requests |-> <<>>]

ServerNext ==
  \/ RequestReceived
  \/ \E i \in 1..MaxRequests : EndpointCalled(i)
  \/ \E i \in 1..MaxRequests : RunReadsMaxRetries(i)
  \/ \E i \in 1..MaxRequests : RunEnds(i)

ServerSpec == ServerInit /\ [][ServerNext]_vars

\* ---------------------------------------------------------------- claims
CallPositions == {"generate_hypothesis", "validate", "review", "design_experiment"}
LogPositions == {"log_trace_accepted", "log_trace_failed", "log_trace_error"}

\* A trace is emitted when a log_trace call given it returns.
Emitted(g) == {i \in DOMAIN veritas_log : veritas_log[i].gap_id = g /\ veritas_log[i].ok}

\* the for loop is done with gap g
Finished(g) == g < gap_index \/ (pc = "returned" /\ g <= Len(gaps))

\* the hypotheses of gap g in a list of hypotheses
HypothesesOf(g, hs) == {j \in DOMAIN hs : hs[j].id = <<"hyp", g>>}

\* C1: every trace passed to log_trace has status ACCEPTED, DISCARDED(reason)
\* or ERROR(message); a PENDING trace is never passed.  (Stated for
\* max_retries >= 1, where every gap gets at least one attempt.)
C1_NoPendingTraceLogged ==
  max_retries >= 1 =>
    \A i \in DOMAIN veritas_log :
      veritas_log[i].status.kind \in {"ACCEPTED", "DISCARDED", "ERROR"}

\* C2: when every attempt of a gap up to max_retries gave a hypothesis with
\* causal score >= 0.5 and a FATAL critique (the loop ran max_retries times
\* and each time excluded the target), the trace about to be logged is
\* DISCARDED and no hypothesis of the gap is in results.
C2_ExhaustedGapIsDiscarded ==
  (/\ pc = "log_trace_failed"
   /\ max_retries >= 1
   /\ attempts = max_retries
   /\ Len(excluded_targets) = max_retries)
  => /\ trace[1].status.kind = "DISCARDED"
     /\ HypothesesOf(gap.id, results) = {}

\* C3: when run ends, every gap the scanner returned has had its trace
\* emitted exactly once; and while run awaits a collaborator for a gap, every
\* earlier gap has had its trace emitted exactly once.  (Stated for
\* max_retries >= 1.)
C3_TraceEmittedOncePerGap ==
  max_retries >= 1 =>
    /\ pc \in {"returned", "raised"} =>
         \A g \in 1..Len(gaps) : Cardinality(Emitted(g)) = 1
    /\ pc \in CallPositions =>
         \A g \in 1..(gap_index - 1) : Cardinality(Emitted(g)) = 1

\* C4: once the scanner has returned gaps, run never raises: an exception of
\* a collaborator called for a gap (log_trace included) does not leave run.
\* (Stated for max_retries >= 1.)
C4_RunNeverRaisesAfterScan ==
  max_retries >= 1 => ~(pc = "raised" /\ gaps # <<>>)

\* C5: for a gap during which a collaborator raised an exception that the
\* except clause caught: every trace emitted for the gap has status ERROR
\* with that exception's message, results holds no hypothesis of the gap,
\* and once the loop is done with the gap exactly one trace was emitted.
C5_ErrorTraceForRaisingGap ==
  \A k \in DOMAIN caught :
    LET g == caught[k].gap_id
        msg == caught[k].msg
    IN  /\ \A i \in Emitted(g) :
             veritas_log[i].status = [kind |-> "ERROR", detail |-> msg]
        /\ HypothesesOf(g, results) = {}
        /\ Finished(g) => Cardinality(Emitted(g)) = 1

\* C5 witness: run returned, a collaborator raised during its first gap, whose
\* ERROR trace was emitted, and a later gap was accepted.
C5_Witness ==
  /\ pc = "returned"
  /\ Len(caught) = 1
  /\ caught[1].gap_id = 1
  /\ Cardinality(Emitted(1)) = 1
  /\ Len(returned[1]) = 1

\* C6 as claimed: for every max_retries, at most max_retries
\* generate_hypothesis calls are made per gap and the trace's
\* excluded_targets_history has at most max_retries - 1 entries.
C6_AttemptsAndHistoryBounded ==
  /\ Len(bridge_calls) <= max_retries
  /\ pc \in LogPositions =>
       Len(trace[1].excluded_targets_history) <= max_retries - 1

Max(a, b) == IF a >= b THEN a ELSE b

\* C6 amended: at most max(max_retries, 0) generate_hypothesis calls are made
\* per gap, and the trace's excluded_targets_history has at most
\* max(max_retries - 1, 0) entries.
C6_AttemptsAndHistoryBoundedFromZero ==
  /\ Len(bridge_calls) <= Max(max_retries, 0)
  /\ trace # None =>
       Len(trace[1].excluded_targets_history) <= Max(max_retries - 1, 0)

\* C6 witness: a gap used all its attempts, and the trace about to be logged
\* has the longest history allowed.
C6_Witness ==
  /\ pc = "log_trace_failed"
  /\ max_retries >= 2
  /\ Len(bridge_calls) = max_retries
  /\ Len(trace[1].excluded_targets_history) = max_retries - 1

IsPrefix(s, t) == Len(s) <= Len(t) /\ \A i \in 1..Len(s) : s[i] = t[i]

\* C7: within a gap, the exclusion list passed to each generate_hypothesis
\* call extends the one passed to the call before, and no list passed holds
\* a symbol twice.
C7_ExclusionListGrowsWithoutDuplicates ==
  \A i \in DOMAIN bridge_calls :
    /\ NoRepeat(bridge_calls[i])
    /\ i > 1 => IsPrefix(bridge_calls[i - 1], bridge_calls[i])

\* the gaps whose emitted trace is ACCEPTED, in the order of emission
AcceptedEmissions ==
  LET IsAccepted(e) == e.ok /\ e.status = [kind |-> "ACCEPTED", detail |-> ""]
  IN  SelectSeq(veritas_log, IsAccepted)

\* C8: what run returns is, in gap order, one hypothesis for each gap whose
\* emitted trace is ACCEPTED, and nothing else: no hypothesis of a gap whose
\* emitted trace is DISCARDED, ERROR (or PENDING).
C8_ReturnsAcceptedHypothesesOnly ==
  pc = "returned" =>
    LET hs == returned[1]
        acc == AcceptedEmissions
    IN  /\ Len(hs) = Len(acc)
        /\ \A k \in DOMAIN hs : hs[k].id = <<"hyp", acc[k].gap_id>>
        /\ \A k \in DOMAIN hs : k > 1 => acc[k - 1].gap_id < acc[k].gap_id
        /\ \A g \in 1..Len(gaps) :
             (\E i \in Emitted(g) : veritas_log[i].status.kind # "ACCEPTED")
               => HypothesesOf(g, hs) = {}

\* C8 witness: run returned after two gaps, the first not accepted (its
\* ACCEPTED log_trace call raised, or it was discarded), the second accepted.
C8_Witness ==
  /\ pc = "returned"
  /\ Len(gaps) = 2
  /\ Len(returned[1]) = 1
  /\ returned[1][1].id = <<"hyp", 2>>
  /\ \E i \in Emitted(1) : veritas_log[i].status.kind = "ERROR"

\* C9: no hypothesis in results (so none that run returns) has a FATAL
\* critique, and each has causal_validation_score >= 0.5.
C9_ResultsHaveNoFatalAndScoreAtLeastFloor ==
  \A j \in DOMAIN results :
    /\ \A k \in DOMAIN results[j].critiques :
         results[j].critiques[k].severity # "FATAL"
    /\ results[j].causal_validation_score >= 5

\* C9 witness: run returned a hypothesis that was accepted after two targets
\* were excluded, and it carries critiques.
C9_Witness ==
  /\ pc = "returned"
  /\ Len(returned[1]) >= 1
  /\ returned[1][1].critiques # <<>>
  /\ Len(gaps) = 1
  /\ Len(excluded_targets) = 2

\* C10: when the review of a gap's first attempt returns a hypothesis with
\* no FATAL critique (its score having passed the floor), run goes on to the
\* experiment design with nothing excluded; when the design returns, the
\* trace is ACCEPTED with no retry and an empty exclusion history; when the
\* log_trace call returns, the hypothesis joins results.  No further
\* generate_hypothesis call is made for the gap.
C10_AcceptedOnFirstAttempt ==
  [][/\ (/\ pc = "review" /\ attempts = 1 /\ pc' # "log_trace_error"
         /\ \A k \in DOMAIN hypothesis'[1].critiques :
              hypothesis'[1].critiques[k].severity # "FATAL")
        => /\ pc' = "design_experiment"
           /\ attempts' = 1
           /\ excluded_targets' = <<>>
           /\ hypothesis'[1].causal_validation_score >= 5
     /\ (/\ pc = "design_experiment" /\ attempts = 1 /\ pc' # "log_trace_error")
        => /\ pc' = "log_trace_accepted"
           /\ trace'[1].status = [kind |-> "ACCEPTED", detail |-> ""]
           /\ trace'[1].result = hypothesis'
           /\ trace'[1].refinement_retries = 0
           /\ trace'[1].excluded_targets_history = <<>>
     /\ (/\ pc = "log_trace_accepted" /\ attempts = 1 /\ pc' # "log_trace_error")
        => /\ results' = Append(results, hypothesis[1])
           /\ veritas_log'[Len(veritas_log')] =
                [gap_id |-> trace[1].gap_id,
                 status |-> [kind |-> "ACCEPTED", detail |-> ""], ok |-> TRUE]
     /\ (pc \in {"design_experiment", "log_trace_accepted"} /\ attempts = 1)
        => (pc' # "generate_hypothesis" \/ gap_index' # gap_index)
    ]_vars

\* C10 witness: a hypothesis accepted on the first attempt of its gap is in
\* results although the review gave it a MEDIUM and a HIGH critique.
C10_Witness ==
  /\ pc = "returned"
  /\ Len(gaps) = 1
  /\ excluded_targets = <<>>
  /\ Len(returned[1]) = 1
  /\ \E k \in DOMAIN returned[1][1].critiques :
       returned[1][1].critiques[k].severity = "MEDIUM"
  /\ \E k \in DOMAIN returned[1][1].critiques :
       returned[1][1].critiques[k].severity = "HIGH"

\* C11: when validate returns a score below 0.5, the trace becomes
\* DISCARDED (Low Causal Score) and run goes straight to logging it: the
\* exclusion list and the generate_hypothesis calls of the gap stay as they
\* were, the hypothesis has been neither reviewed nor given a design, and
\* what follows the log_trace call belongs to the next gap, the end of run
\* or the except clause.  A score of exactly 0.5 goes on to the review.
C11_LowCausalScoreDiscardsAtOnce ==
  [][/\ (/\ pc = "validate" /\ pc' # "log_trace_error"
         /\ hypothesis'[1].causal_validation_score < 5)
        => /\ pc' = "log_trace_failed"
           /\ trace'[1].status = [kind |-> "DISCARDED", detail |-> "Low Causal Score"]
           /\ excluded_targets' = excluded_targets
           /\ bridge_calls' = bridge_calls
           /\ attempts' = attempts
           /\ hypothesis'[1].critiques = <<>>
           /\ hypothesis'[1].killer_experiment_pico = "TBD"
     /\ (/\ pc = "validate" /\ pc' # "log_trace_error"
         /\ hypothesis'[1].causal_validation_score = 5)
        => pc' = "review"
     /\ (/\ pc = "log_trace_failed"
         /\ trace[1].status = [kind |-> "DISCARDED", detail |-> "Low Causal Score"])
        => /\ veritas_log'[Len(veritas_log')].status = trace[1].status
           /\ \/ pc' \in {"returned", "log_trace_error"}
              \/ gap_index' = gap_index + 1
           /\ results' = results
    ]_vars

\* C11 witness: a gap's second attempt (the first was rejected by the
\* review) ended on a low causal score, and its DISCARDED trace was emitted.
C11_Witness ==
  /\ pc = "returned"
  /\ Len(gaps) = 1
  /\ Len(excluded_targets) = 1
  /\ attempts = 2
  /\ hypothesis = None
  /\ veritas_log = <<[gap_id |-> 1,
                      status |-> [kind |-> "DISCARDED", detail |-> "Low Causal Score"],
                      ok |-> TRUE]>>
  /\ returned = <<(<<>>)>>

\* C12: when generate_hypothesis returns no hypothesis, on the first attempt
\* or on a retry, the trace becomes DISCARDED (No Bridge) and run goes
\* straight to logging it; what follows the log_trace call belongs to the
\* next gap, the end of run or the except clause, so that no selection,
\* validation, review or design call is made for the gap any more.
C12_NoBridgeDiscardsAtOnce ==
  [][/\ (/\ pc = "generate_hypothesis" /\ pc' # "log_trace_error"
         /\ hypothesis' = <<>>)
        => /\ pc' = "log_trace_failed"
           /\ trace'[1].status = [kind |-> "DISCARDED", detail |-> "No Bridge"]
           /\ excluded_targets' = excluded_targets
           /\ bridge_calls' = bridge_calls
           /\ attempts' = attempts
     /\ (/\ pc = "log_trace_failed"
         /\ hypothesis = <<>>
         /\ attempts >= 1 /\ Len(excluded_targets) = attempts - 1)
        => /\ trace[1].status = [kind |-> "DISCARDED", detail |-> "No Bridge"]
           /\ veritas_log'[Len(veritas_log')].status = trace[1].status
           /\ \/ pc' \in {"returned", "log_trace_error"}
              \/ gap_index' = gap_index + 1
           /\ results' = results
    ]_vars

\* C12 witness: on a retry (one target excluded) the selection returned no
\* hypothesis and the gap's DISCARDED (No Bridge) trace was emitted.
C12_Witness ==
  /\ pc = "returned"
  /\ Len(gaps) = 1
  /\ Len(excluded_targets) = 1
  /\ attempts = 2
  /\ veritas_log = <<[gap_id |-> 1,
                      status |-> [kind |-> "DISCARDED", detail |-> "No Bridge"],
                      ok |-> TRUE]>>
  /\ returned = <<(<<>>)>>

\* C13: when the review returns a FATAL critique and attempts are left, the
\* reviewed hypothesis's target symbol is appended to excluded_targets and
\* the next generate_hypothesis call of the same gap is given that list;
\* whenever run awaits generate_hypothesis the list holds one symbol per
\* attempt made so far, so it is the list of the gap's rejected targets in
\* rejection order.
C13_FatalCritiqueExcludesTargetForNextAttempt ==
  [][/\ (/\ pc = "review" /\ pc' # "log_trace_error"
         /\ attempts < max_retries
         /\ \E k \in DOMAIN hypothesis'[1].critiques :
              hypothesis'[1].critiques[k].severity = "FATAL")
        => /\ pc' = "generate_hypothesis"
           /\ gap_index' = gap_index
           /\ attempts' = attempts + 1
           /\ excluded_targets' =
                Append(excluded_targets, hypothesis[1].target_candidate.symbol)
           /\ bridge_calls' = Append(bridge_calls, excluded_targets')
           /\ trace'[1].excluded_targets_history = excluded_targets'
     /\ (pc' = "generate_hypothesis")
        => /\ Len(excluded_targets') = attempts' - 1
           /\ bridge_calls'[Len(bridge_calls')] = excluded_targets'
    ]_vars

\* C13 witness: the third generate_hypothesis call of a gap is given the two
\* different targets rejected before, in rejection order.
C13_Witness ==
  /\ pc = "generate_hypothesis"
  /\ attempts = 3
  /\ excluded_targets = <<"X", "Y">>
  /\ bridge_calls = <<(<<>>), <<"X">>, <<"X", "Y">>>>

\* ----------------------------------------- claims on generate_hypothesis
\* The call has returned a BridgeResult.
BuilderReturned == bridge_builder.pc = "returned"

\* What the graph returned to the call, and what the other clients answer
\* for the i-th candidate of that list.
Candidates == bridge_builder.world.bridges
Measured(i) == bridge_builder.world.drug[<<"ENSG", Candidates[i]>>]
Validated(i) == bridge_builder.world.codex[Candidates[i]]

\* The i-th candidate is not excluded, druggable, validated by the ontology
\* and has its citation verified.
Eligible(i) ==
  /\ Candidates[i] \notin Range(bridge_builder.excluded_targets)
  /\ Measured(i) > 5
  /\ Validated(i) # ""
  /\ bridge_builder.world.cite[Validated(i)]

EligibleCandidates == {i \in DOMAIN Candidates : Eligible(i)}

\* The stepwise call returns what the operator generate_hypothesis gives.
BuilderAgreesWithOperator ==
  BuilderReturned =>
    bridge_builder.result[1] =
      generate_hypothesis(bridge_builder.gap, bridge_builder.excluded_targets,
                          bridge_builder.world, <<"hyp", bridge_builder.gap.id>>)

\* C14: for a gap with fewer than two source nodes (none, or an empty list,
\* or one node) generate_hypothesis returns, without raising, a BridgeResult
\* with no hypothesis, bridges_found_count 0 and no considered candidates,
\* and calls none of its clients.
C14_TooFewSourceNodesReturnsEmptyResult ==
  Len(bridge_builder.gap.source_nodes) < 2
    => /\ bridge_builder.pc \in {"start", "returned"}
       /\ bridge_builder.client_calls = <<>>
       /\ BuilderReturned
            => bridge_builder.result =
                 <<[hypothesis |-> <<>>, bridges_found_count |-> 0,
                    considered_candidates |-> <<>>]>>

\* C14 witness: the call returned for a gap with one source node, although
\* the graph would have had a druggable, validated, verified candidate.
C14_Witness ==
  /\ BuilderReturned
  /\ bridge_builder.gap.source_nodes = <<"A">>
  /\ EligibleCandidates # {}

\* C15: when some candidate is eligible, the returned hypothesis is built on
\* the eligible candidate with the highest measured druggability, the first
\* of them in the graph's return order when several share that score: its
\* target is the ontology's record of that candidate.  When no candidate is
\* eligible, no hypothesis is returned.
C15_SelectsFirstBestEligibleCandidate ==
  (BuilderReturned /\ Len(bridge_builder.gap.source_nodes) >= 2)
    => IF EligibleCandidates = {}
       THEN bridge_builder.result[1].hypothesis = <<>>
       ELSE LET i == CHOOSE i \in EligibleCandidates :
                       \A j \in EligibleCandidates :
                         \/ Measured(j) < Measured(i)
                         \/ (Measured(j) = Measured(i) /\ i <= j)
            IN  /\ bridge_builder.result[1].hypothesis # <<>>
                /\ LET target_candidate ==
                          bridge_builder.result[1].hypothesis[1].target_candidate
                   IN  /\ target_candidate.symbol = Validated(i)
                       /\ target_candidate.ensembl_id = <<"ENSG", Validated(i)>>

\* C15 witness: two eligible candidates with the same measured druggability
\* and different validated symbols; the call returned a hypothesis.
C15_Witness ==
  /\ BuilderReturned
  /\ EligibleCandidates = {1, 2}
  /\ Measured(1) = Measured(2)
  /\ Validated(1) # Validated(2)
  /\ bridge_builder.result[1].hypothesis # <<>>

\* C15 witness of the other case: the second of two eligible candidates has
\* the higher measured druggability.
C15_WitnessHigherSecond ==
  /\ BuilderReturned
  /\ EligibleCandidates = {1, 2}
  /\ Measured(1) < Measured(2)
  /\ Validated(1) # Validated(2)

\* C16: every BridgeResult returned after the graph was asked has
\* bridges_found_count equal to the number of candidates the graph returned
\* and considered_candidates equal to their symbols in return order, with or
\* without a hypothesis, whatever was excluded or filtered out.
C16_ResultCarriesAllCandidates ==
  (BuilderReturned /\ bridge_builder.client_calls # <<>>)
    => /\ bridge_builder.client_calls[1].client = "graph_client"
       /\ bridge_builder.result[1].bridges_found_count = Len(Candidates)
       /\ bridge_builder.result[1].considered_candidates = Candidates

\* C16 witness: no hypothesis is returned for two candidates, one excluded
\* and one not druggable; both are counted and listed.
C16_Witness ==
  /\ BuilderReturned
  /\ bridge_builder.result[1].hypothesis = <<>>
  /\ Len(Candidates) = 2
  /\ Candidates[1] \in Range(bridge_builder.excluded_targets)
  /\ Candidates[2] \notin Range(bridge_builder.excluded_targets)
  /\ Measured(2) = 5
  /\ bridge_builder.result[1].bridges_found_count = 2

\* C17: the hypothesis generate_hypothesis returns never has a target whose
\* symbol is in the excluded_targets list of the call.
C17_ReturnedTargetIsNotExcluded ==
  (BuilderReturned /\ bridge_builder.result[1].hypothesis # <<>>)
    => bridge_builder.result[1].hypothesis[1].target_candidate.symbol
         \notin Range(bridge_builder.excluded_targets)

ReviewOrder ==
  <<"run_toxicology_screen", "check_clinical_redundancy",
    "check_patent_infringement", "find_disconfirming_evidence">>
ReviewSources == <<"Toxicologist", "Clinician", "IP Strategist", "Scientific Skeptic">>

\* how many findings the first k client calls returned
RECURSIVE FindingsBefore(_)
FindingsBefore(k) ==
  IF k = 0 THEN 0
  ELSE FindingsBefore(k - 1) + Len(adversarial_reviewer.client_calls[k].value)

\* The stepwise review returns what the operator review gives.
ReviewerAgreesWithOperator ==
  adversarial_reviewer.pc = "returned" =>
    adversarial_reviewer.result[1] =
      review([adversarial_reviewer.hypothesis EXCEPT
                !.critiques = adversarial_reviewer.critiques_before],
             adversarial_reviewer.client_calls[1].value,
             adversarial_reviewer.client_calls[2].value,
             adversarial_reviewer.client_calls[3].value,
             adversarial_reviewer.client_calls[4].value)

\* C19: the hypothesis review returns has the critiques it came with,
\* followed by one critique per finding: first the toxicology findings, then
\* the clinical redundancies, then the patents, then the disconfirming
\* evidence, each group in the order its client returned it and labelled
\* with its source; a client that returned nothing adds nothing.
C19_CritiquesInStrategyOrder ==
  adversarial_reviewer.pc = "returned"
    => LET before == adversarial_reviewer.critiques_before
           calls == adversarial_reviewer.client_calls
           after == adversarial_reviewer.result[1].critiques
       IN  /\ Len(calls) = 4
           /\ \A k \in 1..4 : calls[k].method = ReviewOrder[k]
           /\ Len(after) = Len(before) + FindingsBefore(4)
           /\ \A n \in 1..Len(before) : after[n] = before[n]
           /\ \A k \in 1..4 : \A n \in 1..Len(calls[k].value) :
                LET c == after[Len(before) + FindingsBefore(k - 1) + n]
                IN  /\ c.source = ReviewSources[k]
                    /\ <<c.content[Len(c.content)]>> = calls[k].value[n]

\* C19 witness: review returned after two toxicology findings, no clinical
\* redundancy, one patent and two pieces of disconfirming evidence, for a
\* hypothesis that came with a critique.
C19_Witness ==
  /\ adversarial_reviewer.pc = "returned"
  /\ adversarial_reviewer.critiques_before # <<>>
  /\ adversarial_reviewer.client_calls[1].value = <<(<<"f">>), <<"g">>>>
  /\ adversarial_reviewer.client_calls[2].value = <<>>
  /\ adversarial_reviewer.client_calls[3].value = <<(<<"g">>)>>
  /\ adversarial_reviewer.client_calls[4].value = <<(<<"g">>), <<"f">>>>
  /\ Len(adversarial_reviewer.result[1].critiques) = 6

\* C20: when a client call of a review raises, whichever of the four it is,
\* review raises that error at once: no later check is made, nothing is
\* returned and the hypothesis's critiques are as they were.
C20_ReviewPropagatesStrategyError ==
  \A k \in DOMAIN adversarial_reviewer.client_calls :
    adversarial_reviewer.client_calls[k].outcome = "raised"
      => /\ adversarial_reviewer.pc = "raised"
         /\ adversarial_reviewer.error = <<adversarial_reviewer.client_calls[k].value>>
         /\ adversarial_reviewer.result = <<>>
         /\ k = Len(adversarial_reviewer.client_calls)
         /\ adversarial_reviewer.hypothesis.critiques =
              adversarial_reviewer.critiques_before

\* C20 witness: the third check raised "timeout" after the first had
\* returned a finding.
C20_Witness ==
  /\ adversarial_reviewer.pc = "raised"
  /\ Len(adversarial_reviewer.client_calls) = 3
  /\ adversarial_reviewer.client_calls[1].value # <<>>
  /\ adversarial_reviewer.error = <<"timeout">>

C22_ReviewOnlyAppends ==
  \A k \in DOMAIN adversarial_reviewer.seen :
    LET before == adversarial_reviewer.seen[k]
        now == adversarial_reviewer.hypothesis.critiques
    IN  /\ Len(before) <= Len(now)
        /\ \A n \in DOMAIN before : now[n] = before[n]

\* C22 witness: three calls on a hypothesis that came with a critique; the
\* first added four critiques, the second none, the third one.
C22_Witness ==
  /\ adversarial_reviewer.pc = "reviewed"
  /\ Len(adversarial_reviewer.seen) = 3
  /\ Len(adversarial_reviewer.seen[1]) = 1
  /\ Len(adversarial_reviewer.seen[2]) = 5
  /\ Len(adversarial_reviewer.seen[3]) = 5
  /\ Len(adversarial_reviewer.hypothesis.critiques) = 6

\* C23: in the hypothesis review returns, every toxicology finding and every
\* piece of disconfirming evidence is a FATAL critique, every clinical
\* redundancy a MEDIUM one and every patent a HIGH one; so the hypothesis
\* has no FATAL critique, which is what the engine asks for to accept it,
\* only if the toxicology screen and the search for disconfirming evidence
\* both returned no findings.
ReviewSeverities == <<"FATAL", "MEDIUM", "HIGH", "FATAL">>

C23_SeverityBySourceGatesAcceptance ==
  adversarial_reviewer.pc = "returned"
    => LET before == adversarial_reviewer.critiques_before
           calls == adversarial_reviewer.client_calls
           after == adversarial_reviewer.result[1].critiques
       IN  /\ \A k \in 1..4 : \A n \in 1..Len(calls[k].value) :
                after[Len(before) + FindingsBefore(k - 1) + n].severity
                  = ReviewSeverities[k]
           /\ fatal_critiques(adversarial_reviewer.result[1]) = <<>>
                => /\ calls[1].value = <<>>
                   /\ calls[4].value = <<>>

\* C23 witness: review returned a hypothesis with a redundancy and a patent
\* on it and no toxicology finding nor disconfirming evidence: it has
\* critiques, none of them FATAL.
C23_Witness ==
  /\ adversarial_reviewer.pc = "returned"
  /\ adversarial_reviewer.client_calls[1].value = <<>>
  /\ adversarial_reviewer.client_calls[2].value # <<>>
  /\ adversarial_reviewer.client_calls[3].value # <<>>
  /\ adversarial_reviewer.client_calls[4].value = <<>>
  /\ fatal_critiques(adversarial_reviewer.result[1]) = <<>>

\* C23 second witness: one piece of disconfirming evidence alone is FATAL.
C23_WitnessFatal ==
  /\ adversarial_reviewer.pc = "returned"
  /\ adversarial_reviewer.client_calls[1].value = <<>>
  /\ Len(adversarial_reviewer.client_calls[4].value) = 1
  /\ Len(fatal_critiques(adversarial_reviewer.result[1])) = 1

\* C25: when generate_hypothesis is called with any of its six clients
\* missing, it raises a RuntimeError that names a missing client, the first
\* in the order of the checks, and until it does and after it has, no
\* collaborator has been called: the engine has not started, no gap has
\* been scanned, no bridge asked for and no trace logged.
C25_MissingClientRaisesBeforeAnyCall ==
  LET missing == {p \in ClientParameters : ~entry_point.clients[p]}
  IN  entry_point.pc # "idle" /\ missing # {}
        => /\ entry_point.pc \in {"called", "raised"}
           /\ pc = "idle"
           /\ gaps = <<>>
           /\ bridge_calls = <<>>
           /\ veritas_log = <<>>
           /\ entry_point.pc = "raised"
                => \E i \in DOMAIN RequiredClients :
                     /\ RequiredClients[i].parameter \in missing
                     /\ \A j \in 1..(i - 1) : RequiredClients[j].parameter \notin missing
                     /\ entry_point.error =
                          <<(<<"Missing required external client: ",
                               RequiredClients[i].name>>)>>

\* C25 witness: generate_hypothesis raised for a call in which only the
\* veritas client, the last one checked, was missing.
C25_Witness ==
  /\ entry_point.pc = "raised"
  /\ \A p \in ClientParameters : entry_point.clients[p] <=> p # "veritas_client"
  /\ entry_point.error =
       <<(<<"Missing required external client: ", "VeritasClient">>)>>

\* C26: when run is cancelled while a gap is in hand, whatever call it was
\* awaiting (selection, validation, review, design or a log_trace), no trace
\* has been emitted for that gap, and no trace with status ERROR(cancelled)
\* is ever emitted nor is a cancellation ever caught by the except clause:
\* the one policy, no trace for the interrupted gap, applies at every step.
C26_CancellationEmitsNoTrace ==
  /\ pc = "cancelled" /\ gap_index >= 1 => Emitted(gap_index) = {}
  /\ \A i \in DOMAIN veritas_log :
       veritas_log[i].ok => veritas_log[i].status # ErrorStatus("cancelled")
  /\ \A i \in DOMAIN caught : caught[i].msg # "cancelled"

\* C26 witness: run was cancelled while it awaited the log_trace call of the
\* second gap's ACCEPTED trace, the first gap's trace having been emitted.
C26_Witness ==
  /\ pc = "cancelled"
  /\ gap_index = 2
  /\ Emitted(1) # {}
  /\ veritas_log[Len(veritas_log)] = [gap_id |-> 2, status |-> ACCEPTED, ok |-> FALSE]

\* C26 second witness: run was cancelled with the first gap in hand before
\* any log_trace call was made.
C26_WitnessAtCall ==
  /\ pc = "cancelled"
  /\ gap_index = 1
  /\ veritas_log = <<>>

\* C27: whenever a trace is emitted (a log_trace call returns), its
\* excluded_targets_history is the list of the targets rejected with a FATAL
\* critique while the gap was processed, in rejection order, which is what
\* excluded_targets holds, the target rejected on the last attempt included.
C27_EmittedHistoryHoldsEveryRejectedTarget ==
  [][(/\ pc \in LogPositions
      /\ Len(veritas_log') = Len(veritas_log) + 1
      /\ veritas_log'[Len(veritas_log')].ok)
       => trace[1].excluded_targets_history = excluded_targets
    ]_vars

\* C28: whenever a trace is emitted (a log_trace call returns), its
\* refinement_retries is the length of its excluded_targets_history, and
\* both are the number of generate_hypothesis calls made for the gap minus
\* one, or 0 when no call was made.
C28_RetriesAreHistoryLengthAreAttemptsMinusOne ==
  [][(/\ pc \in LogPositions
      /\ Len(veritas_log') = Len(veritas_log) + 1
      /\ veritas_log'[Len(veritas_log')].ok)
       => /\ trace[1].refinement_retries = Len(trace[1].excluded_targets_history)
          /\ trace[1].refinement_retries = Max(Len(bridge_calls) - 1, 0)
          /\ Len(bridge_calls) = attempts
    ]_vars

\* C28 witness: run returned after emitting the trace of a gap accepted on
\* its third attempt: two retries, two targets in the history.
C28_Witness ==
  /\ pc = "returned"
  /\ Len(veritas_log) >= 1
  /\ veritas_log[Len(veritas_log)].ok
  /\ veritas_log[Len(veritas_log)].status = ACCEPTED
  /\ Len(bridge_calls) = 3
  /\ trace[1].refinement_retries = 2
  /\ Len(trace[1].excluded_targets_history) = 2

\* C28 second witness: a trace emitted for a gap that got no attempt.
C28_WitnessNoAttempt ==
  /\ pc = "returned"
  /\ max_retries = 0
  /\ Len(veritas_log) >= 1
  /\ veritas_log[Len(veritas_log)].ok
  /\ bridge_calls = <<>>
  /\ trace[1].refinement_retries = 0

\* C29: run comes to await validate only from generate_hypothesis and with
\* the hypothesis it returned, review only from validate and with a score of
\* at least 0.5, design_experiment only from review and with no FATAL
\* critique on the reviewed hypothesis, which has no design yet; a new
\* generate_hypothesis call of the same gap comes only from review; and
\* once design_experiment has been called for a gap, no collaborator other
\* than log_trace is called for that gap again, so a gap gets at most one
\* design.
C29_CallsOrderedAndGated ==
  [][/\ pc' = "validate"
        => /\ pc = "generate_hypothesis"
           /\ gap_index' = gap_index
           /\ hypothesis' # <<>>
           /\ hypothesis'[1].causal_validation_score = 0
     /\ pc' = "review"
        => /\ pc = "validate"
           /\ gap_index' = gap_index
           /\ hypothesis'[1].causal_validation_score >= 5
     /\ pc' = "design_experiment"
        => /\ pc = "review"
           /\ gap_index' = gap_index
           /\ \A k \in DOMAIN hypothesis'[1].critiques :
                hypothesis'[1].critiques[k].severity # "FATAL"
           /\ hypothesis'[1].causal_validation_score >= 5
           /\ hypothesis'[1].killer_experiment_pico = "TBD"
     /\ (pc' = "generate_hypothesis" /\ gap_index' = gap_index)
        => pc = "review"
     /\ pc \in {"design_experiment", "log_trace_accepted", "log_trace_failed",
                "log_trace_error"}
        => \/ pc' \in {"log_trace_accepted", "log_trace_error", "returned", "raised"}
           \/ gap_index' = gap_index + 1
    ]_vars

\* C29 witness: on the second attempt of a gap, run has gone through
\* selection, validation, review and design and now awaits log_trace with
\* the designed hypothesis, which carries critiques.
C29_Witness ==
  /\ pc = "log_trace_accepted"
  /\ attempts = 2
  /\ hypothesis[1].killer_experiment_pico = "designed"
  /\ hypothesis[1].critiques # <<>>
  /\ hypothesis[1].causal_validation_score >= 5

\* C30: the hypothesis generate_hypothesis returns carries, as its target's
\* druggability_score, the druggability measured in this call for the
\* selected candidate, which is the highest measured among the eligible
\* candidates: not the graph's value (0) and not the value measured for
\* another candidate, whether or not the ontology shares its objects.
C30_ScoreIsMeasuredForSelectedCandidate ==
  (BuilderReturned /\ bridge_builder.result[1].hypothesis # <<>>)
    => \E i \in EligibleCandidates :
         /\ \A j \in EligibleCandidates : Measured(j) <= Measured(i)
         /\ bridge_builder.result[1].hypothesis[1].target_candidate.druggability_score
              = Measured(i)

\* C31: whenever a trace is emitted (a log_trace call returns), its result
\* holds a hypothesis exactly when its status is ACCEPTED: a DISCARDED or
\* ERROR trace carries no final hypothesis, also when the failure came after
\* the trace was marked ACCEPTED.
C31_ResultOnlyOnAcceptedTrace ==
  [][(/\ pc \in LogPositions
      /\ Len(veritas_log') = Len(veritas_log) + 1
      /\ veritas_log'[Len(veritas_log')].ok)
       => (trace[1].result # <<>> <=> trace[1].status = ACCEPTED)
    ]_vars

\* C32: every hypothesis a selection attempt hands to run has no critiques;
\* the critiques it has after the review are exactly those the review of
\* that attempt made of its four checks' findings; validation and design
\* leave them as they are, and the hypothesis that joins results is that
\* one.  So a hypothesis in results carries no critique raised against a
\* candidate rejected earlier in its gap.
C32_CritiquesComeFromOwnReview ==
  [][/\ pc' = "validate"
        => hypothesis'[1].critiques = <<>>
     /\ pc' = "review"
        => hypothesis'[1].critiques = <<>>
     /\ (pc = "review" /\ pc' # "log_trace_error")
        => \E tox_risks \in FindingLists, redundancies \in FindingLists,
              patents \in FindingLists, disconfirming_evidence \in FindingLists :
             hypothesis'[1].critiques =
               ToxicologyStrategy(tox_risks)
               \o ClinicalRedundancyStrategy(redundancies)
               \o PatentStrategy(patents)
               \o ScientificSkepticStrategy(disconfirming_evidence)
     /\ (pc = "design_experiment" /\ pc' = "log_trace_accepted")
        => hypothesis'[1].critiques = hypothesis[1].critiques
     /\ results' # results
        => /\ pc = "log_trace_accepted"
           /\ results' = Append(results, hypothesis[1])
    ]_vars

\* C32 witness: run returned a hypothesis accepted on the second attempt of
\* its gap, after X was rejected; it carries a single critique, the
\* clinician's of its own review.
C32_Witness ==
  /\ pc = "returned"
  /\ Len(gaps) = 1
  /\ excluded_targets = <<"X">>
  /\ Len(returned[1]) = 1
  /\ returned[1][1].target_candidate.symbol = "Y"
  /\ Len(returned[1][1].critiques) = 1
  /\ returned[1][1].critiques[1].source = "Clinician"

\* C33: at any moment of a generate_hypothesis call, every druggability
\* call made so far is for a candidate that is not excluded; every ontology
\* call follows at once the druggability call of the same candidate, which
\* is not excluded and measured above the threshold; every literature call
\* follows at once the ontology call of a candidate the ontology validated,
\* and is about that candidate's validated symbol.  So an excluded candidate
\* gives rise to no call at all.
C33_ClientCallsAreGated ==
  LET calls == bridge_builder.client_calls
      excluded == Range(bridge_builder.excluded_targets)
  IN  \A k \in DOMAIN calls :
        /\ calls[k].method = "check_druggability"
             => \E i \in DOMAIN Candidates :
                  /\ calls[k].args = <<(<<"ENSG", Candidates[i]>>)>>
                  /\ Candidates[i] \notin excluded
        /\ calls[k].method = "validate_target"
             => /\ k > 1
                /\ \E i \in DOMAIN Candidates :
                     /\ calls[k].args = <<Candidates[i]>>
                     /\ calls[k - 1].method = "check_druggability"
                     /\ calls[k - 1].args = <<(<<"ENSG", Candidates[i]>>)>>
                     /\ Candidates[i] \notin excluded
                     /\ Measured(i) > 5
        /\ calls[k].method = "verify_citation"
             => /\ k > 1
                /\ \E i \in DOMAIN Candidates :
                     /\ calls[k - 1].method = "validate_target"
                     /\ calls[k - 1].args = <<Candidates[i]>>
                     /\ Validated(i) # ""
                     /\ calls[k].args[3] = Validated(i)

\* C33 witness: of two candidates the first is excluded and the second is
\* druggable, validated and verified; the call returned after asking the
\* graph and then the three other clients once each, for the second.
C33_Witness ==
  /\ BuilderReturned
  /\ Len(Candidates) = 2
  /\ Candidates[1] \in Range(bridge_builder.excluded_targets)
  /\ Eligible(2)
  /\ Len(bridge_builder.client_calls) = 4
  /\ bridge_builder.client_calls[4].method = "verify_citation"

\* C33 second witness: a druggable candidate the ontology does not validate
\* ends the call after the ontology call, with no literature call.
C33_WitnessNotValidated ==
  /\ BuilderReturned
  /\ Len(Candidates) = 1
  /\ Candidates[1] \notin Range(bridge_builder.excluded_targets)
  /\ Measured(1) > 5
  /\ Validated(1) = ""
  /\ Len(bridge_builder.client_calls) = 3
  /\ bridge_builder.client_calls[3].method = "validate_target"

\* C34: when run moves to a gap, the exclusion list is empty and the trace
\* is a new PENDING one of that gap with an empty history and no
\* hypothesis, and the gap's first generate_hypothesis call, if it gets
\* one, is given no exclusions; within a gap the exclusion list changes
\* only by the symbol of a hypothesis of that gap being appended after its
\* review; every list given to generate_hypothesis and the trace's history
\* are what the gap's own exclusion list is or was.  So a symbol excluded
\* for one gap reaches neither the selection nor the trace of another.
C34_GapStartsWithNoExclusions ==
  [][/\ gap_index' # gap_index
        => /\ gap_index' = gap_index + 1
           /\ excluded_targets' = <<>>
           /\ trace'[1].gap_id = gap_index'
           /\ trace'[1].status = PENDING
           /\ trace'[1].excluded_targets_history = <<>>
           /\ trace'[1].hypothesis_id = <<>>
           /\ trace'[1].result = <<>>
           /\ pc' = "generate_hypothesis" => bridge_calls' = <<(<<>>)>>
     /\ (gap_index' = gap_index /\ excluded_targets' # excluded_targets)
        => /\ pc = "review"
           /\ hypothesis'[1].id = <<"hyp", gap_index>>
           /\ excluded_targets' =
                Append(excluded_targets, hypothesis'[1].target_candidate.symbol)
     /\ \A i \in DOMAIN bridge_calls' : IsPrefix(bridge_calls'[i], excluded_targets')
     /\ trace' # <<>>
        => /\ IsPrefix(trace'[1].excluded_targets_history, excluded_targets')
           /\ trace'[1].gap_id = gap_index'
    ]_vars

\* C34 witness: the first gap used its three attempts, each rejected, so
\* three symbols were excluded for it; the second gap's first
\* generate_hypothesis call is given no exclusions and its trace is new.
C34_Witness ==
  /\ max_retries = 3
  /\ gap_index = 2
  /\ pc = "generate_hypothesis"
  /\ Len(veritas_log) = 1
  /\ veritas_log[1].gap_id = 1
  /\ veritas_log[1].status = PENDING
  /\ excluded_targets = <<>>
  /\ bridge_calls = <<(<<>>)>>
  /\ trace[1].gap_id = 2
  /\ trace[1].excluded_targets_history = <<>>

\* C35: for the list of gaps the scanner returns and the max_retries run was
\* built with, when every collaborator call returns or raises, run
\* eventually returns or raises; and no gap ever gets more than max_retries
\* attempts.
C35_RunTerminates ==
  /\ [](attempts <= Max(max_retries, 0) /\ Len(bridge_calls) = attempts)
  /\ <>(pc \in {"returned", "raised"})

\* C35 witness: run returned after two gaps that each used all three
\* attempts.
C35_Witness ==
  /\ pc = "returned"
  /\ max_retries = 3
  /\ Len(gaps) = 2
  /\ attempts = 3
  /\ Len(veritas_log) = 2
  /\ veritas_log[1].status = PENDING
  /\ veritas_log[2].status = PENDING

\* C36: the shared engine's max_retries is the configured default at all
\* times, whatever requests arrive and however their handlers interleave; a
\* request that supplies max_retries runs on a temporary engine with that
\* bound and the shared engine's components, a request that does not runs
\* on the shared engine; and the bound a request's run reads is its own
\* override if it supplied one and the configured default if not.
C36_OverrideLeavesSharedEngineAlone ==
  /\ server.base_engine.max_retries = MAX_RETRIES
  /\ \A i \in DOMAIN server.requests :
       LET r == server.requests[i]
           bound == IF r.max_retries = <<>> THEN MAX_RETRIES ELSE r.max_retries[1]
       IN  /\ r.engine # <<>>
                => /\ r.engine[1].temp <=> r.max_retries # <<>>
                   /\ EngineOf(r).max_retries = bound
                   /\ EngineOf(r).components = server.base_engine.components
           /\ r.seen # <<>> => r.seen[1] = bound

\* C36 witness: a request with max_retries 1 and a request without
\* max_retries are running at the same time; the first has read the bound 1
\* and the second the default.
C36_Witness ==
  /\ Len(server.requests) = 2
  /\ server.requests[1].max_retries = <<1>>
  /\ server.requests[1].pc = "run"
  /\ server.requests[1].seen = <<1>>
  /\ server.requests[2].max_retries = <<>>
  /\ server.requests[2].pc = "run"
  /\ server.requests[2].seen = <<MAX_RETRIES>>

====
